---- MODULE Spec2Model ----
(***************************************************************************)
(* A model of the n-gram language model of arlakh/myext                    *)
(* (src/src/simple_model_builtin.py, class SimpleLanguageModelBuiltin):    *)
(* training, generation with backoff and temperature sampling, next-word   *)
(* suggestion, and persistence.                                            *)
(*                                                                         *)
(* Abstractions.  A sentence is the sequence of tokens that the regular    *)
(* expression of _preprocess_sentence finds in it.  A probability is an    *)
(* exact fraction <<numerator, denominator>> in lowest terms where the     *)
(* code holds a float.  A Python dict is a sequence of entries in          *)
(* insertion order where the order is observable (the inner next-word      *)
(* dicts), and a function otherwise.  A Python set is the set together     *)
(* with the order in which the set object iterates.                        *)
(***************************************************************************)
EXTENDS Integers, Sequences, FiniteSets, TLC

VARIABLES
    model,      \* the SimpleLanguageModelBuiltin instance
    result,     \* what the last call did: its arguments, its return value or exception
    trains,     \* number of train calls made so far on model
    disk,       \* the content of the model file, NoFile when there is none
    loaded,     \* a second instance, constructed fresh, that load_model fills
    processor,  \* the TextProcessorBuiltin instance
    training_status,  \* the dict training_status of app.py
    requests,   \* the requests in flight in the web service, each with its position
    loads,      \* number of load_books_from_directory calls made so far on processor
    conversation_history  \* the list conversation_history of the chatbot

vars == <<model, result, trains, disk, loaded, processor, training_status, requests, loads,
          conversation_history>>

\* the state outside the language model and its file
serviceVars == <<processor, training_status, requests, loads, conversation_history>>

-----------------------------------------------------------------------------
(* Bounds of the model.                                                    *)

MaxTrains == 2       \* train calls per behaviour
MaxCorpus == 3       \* sentences in a corpus passed to one train call on a fresh model
MaxLoads == 3
MaxPieces == 3       \* pieces a text given to the segmenter is put together from

-----------------------------------------------------------------------------
(* Exact arithmetic on fractions <<n, d>>, d > 0, in lowest terms.         *)

RECURSIVE GCD(_, _)
GCD(a, b) == IF b = 0 THEN a ELSE GCD(b, a % b)

Frac(n, d) == LET g == GCD(n, d) IN IF n = 0 THEN <<0, 1>> ELSE <<n \div g, d \div g>>

Zero == <<0, 1>>
One == <<1, 1>>

FAdd(a, b) == Frac(a[1] * b[2] + b[1] * a[2], a[2] * b[2])

FDiv(a, b) == Frac(a[1] * b[2], a[2] * b[1])

FLeq(a, b) == a[1] * b[2] <= b[1] * a[2]

FLess(a, b) == a[1] * b[2] < b[1] * a[2]

RECURSIVE FPow(_, _)
FPow(a, k) ==
    IF k = 0 THEN One
    ELSE LET r == FPow(a, k - 1) IN Frac(a[1] * r[1], a[2] * r[2])

-----------------------------------------------------------------------------
(* Tokens.                                                                 *)

\* the strings that str.isalpha() accepts, among the tokens of the model
AlphaTokens == {"Aa", "aa", "Bb", "bb", "cc", "zz", "x"}

\* the tokens that re.findall(r'\b\w+\b|[.!?;,]') can return, as far as modelled
RawTokens == AlphaTokens \cup {"7", ".", "!", "?", ";", ","}

IsAlpha(token) == token \in AlphaTokens

\* str.lower()
Lower(token) ==
    CASE token = "Aa" -> "aa"
      [] token = "Bb" -> "bb"
      [] OTHER -> token

\* str.capitalize()
Capitalize(token) ==
    CASE token = "aa" -> "Aa"
      [] token = "bb" -> "Bb"
      [] token = "cc" -> "Cc"
      [] token = "zz" -> "Zz"
      [] token = "x" -> "X"
      [] OTHER -> token

\* str.istitle(): an uppercase letter first, lowercase letters after it
IsTitle(token) == token \in {"Aa", "Bb", "Cc", "Zz", "X"}

\* `token in '.!?'`: Python's substring test against the string '.!?'
InTerminals(token) == token \in {"", ".", "!", "?", ".!", "!?", ".!?"}

\* the rank of a token in Python's string order, as sorted() uses it
TokenRank(token) ==
    CASE token = "!" -> 1
      [] token = "." -> 2
      [] token = "?" -> 3
      [] token = "aa" -> 4
      [] token = "bb" -> 5
      [] token = "cc" -> 6
      [] token = "x" -> 7
      [] token = "zz" -> 8
      [] OTHER -> 9

Range(s) == { s[i] : i \in DOMAIN s }

RECURSIVE FilterSeq(_, _)
\* [x for x in s if x in keep]
FilterSeq(s, keep) ==
    IF s = <<>> THEN <<>>
    ELSE IF Head(s) \in keep THEN <<Head(s)>> \o FilterSeq(Tail(s), keep)
         ELSE FilterSeq(Tail(s), keep)

RECURSIVE PreprocessSentence(_)
\* _preprocess_sentence: the tokens kept, lower-cased
PreprocessSentence(tokens) ==
    IF tokens = <<>> THEN <<>>
    ELSE LET token == Head(tokens)
             rest == PreprocessSentence(Tail(tokens))
         IN  IF IsAlpha(token) /\ Len(token) > 1 THEN <<Lower(token)>> \o rest
             ELSE IF InTerminals(token) THEN <<token>> \o rest
             ELSE rest

-----------------------------------------------------------------------------
(* The model instance.                                                     *)

NoWords == [w \in {} |-> 0]

\* __init__
NewModel(n, mc) ==
    [ n_gram_size       |-> n,
      min_word_count    |-> mc,
      word_to_id        |-> NoWords,
      id_to_word        |-> NoWords,
      vocabulary        |-> {},
      vocab_iter        |-> <<>>,
      word_counts       |-> NoWords,
      n_grams           |-> NoWords,
      sentence_starters |-> <<>>,
      is_trained        |-> FALSE ]

\* TextProcessorBuiltin.__init__
NewProcessor == [book_data |-> <<>>, vocabulary |-> {}, word_counts |-> NoWords]

\* training_status as app.py creates it
ReadyStatus == [is_training |-> FALSE, status |-> "ready"]

\* a processor just constructed and a web service with nothing in flight
ServiceAtRest ==
    /\ processor = NewProcessor
    /\ training_status = ReadyStatus
    /\ requests = <<>>
    /\ loads = 0
    /\ conversation_history = <<>>

\* the orders in which a set object holding S may iterate
Orderings(S) ==
    { s \in [1..Cardinality(S) -> S] : \A i, j \in 1..Cardinality(S) : i # j => s[i] # s[j] }

-----------------------------------------------------------------------------
(* train.                                                                  *)

\* A loop works its accumulator out in each round, before it goes on to the next.
Done(value) == value = value

RECURSIVE ProcessedSentences(_, _)
\* the token lists of the sentences that have at least n_gram_size tokens
ProcessedSentences(n, sentences) ==
    IF sentences = <<>> THEN <<>>
    ELSE LET words == PreprocessSentence(Head(sentences))
             rest == ProcessedSentences(n, Tail(sentences))
         IN  IF Len(words) >= n THEN <<words>> \o rest ELSE rest

RECURSIVE TrackStarters(_, _)
\* sentence_starters.append(words[0]) for each processed sentence with a title-cased first token
TrackStarters(starters, processed) ==
    IF Done(starters) /\ processed = <<>> THEN starters
    ELSE LET words == Head(processed)
         IN  TrackStarters(IF IsTitle(words[1]) THEN Append(starters, words[1]) ELSE starters,
                           Tail(processed))

\* word_counts[word] += 1
CountWord(wc, word) ==
    [ w \in DOMAIN wc \cup {word} |->
        IF w = word THEN (IF word \in DOMAIN wc THEN wc[word] + 1 ELSE 1) ELSE wc[w] ]

RECURSIVE CountWords(_, _)
CountWords(wc, words) ==
    IF Done(wc) /\ words = <<>> THEN wc ELSE CountWords(CountWord(wc, Head(words)), Tail(words))

RECURSIVE UpdateWordCounts(_, _)
UpdateWordCounts(wc, processed) ==
    IF Done(wc) /\ processed = <<>> THEN wc
    ELSE UpdateWordCounts(CountWords(wc, Head(processed)), Tail(processed))

\* {word for word, count in word_counts.items() if count >= min_word_count}
FilterVocabulary(wc, mc) == { w \in DOMAIN wc : wc[w] >= mc }

RECURSIVE SortedTokens(_)
\* sorted(vocabulary)
SortedTokens(S) ==
    IF S = {} THEN <<>>
    ELSE LET first == CHOOSE w \in S : \A v \in S : TokenRank(w) <= TokenRank(v)
         IN  <<first>> \o SortedTokens(S \ {first})

\* {word: i for i, word in enumerate(sorted(vocabulary))}
WordToId(V) ==
    LET sorted == SortedTokens(V)
    IN  [ w \in V |-> (CHOOSE i \in 1..Len(sorted) : sorted[i] = w) - 1 ]

\* {i: word for word, i in word_to_id.items()}
IdToWord(w2i) ==
    [ i \in { w2i[w] : w \in DOMAIN w2i } |-> CHOOSE w \in DOMAIN w2i : w2i[w] = i ]

\* the position of word in the dict dist, 0 when it has no entry
IndexOf(dist, word) ==
    IF \E i \in 1..Len(dist) : dist[i].w = word
    THEN CHOOSE i \in 1..Len(dist) : dist[i].w = word
    ELSE 0

\* dist[next_word] += 1 on a defaultdict(int)
Bump(dist, word) ==
    LET i == IndexOf(dist, word)
    IN  IF i = 0 THEN Append(dist, [w |-> word, p |-> One])
        ELSE [dist EXCEPT ![i] = [w |-> word, p |-> FAdd(dist[i].p, One)]]

\* the count kept under the context and, as a backoff entry, under its shorter suffix
AddNGramWithSuffix(table, ctx, word) ==
    [ c \in DOMAIN table \cup {ctx, Tail(ctx)} |->
        IF c \in {ctx, Tail(ctx)}
        THEN Bump(IF c \in DOMAIN table THEN table[c] ELSE <<>>, word)
        ELSE table[c] ]

\* n_grams[n_gram][next_word] += 1 on a defaultdict of defaultdicts
AddNGram(table, ctx, word) ==
    [ c \in DOMAIN table \cup {ctx} |->
        IF c = ctx THEN Bump(IF ctx \in DOMAIN table THEN table[ctx] ELSE <<>>, word)
        ELSE table[c] ]

RECURSIVE AddWindowsShort(_, _, _, _)
\* the loop with range(len(filtered) - n): the last window is left out
AddWindowsShort(table, filtered, n, i) ==
    IF Done(table) /\ i + n - 1 >= Len(filtered) THEN table
    ELSE AddWindowsShort(AddNGram(table, SubSeq(filtered, i, i + n - 2), filtered[i + n - 1]),
                         filtered, n, i + 1)

RECURSIVE AddWindows(_, _, _, _)
\* for i in range(len(filtered) - n + 1): count the window starting at i (1-based here)
AddWindows(table, filtered, n, i) ==
    IF Done(table) /\ i + n - 1 > Len(filtered) THEN table
    ELSE AddWindows(AddNGram(table, SubSeq(filtered, i, i + n - 2), filtered[i + n - 1]),
                    filtered, n, i + 1)

RECURSIVE BuildNGrams(_, _, _, _)
BuildNGrams(table, processed, V, n) ==
    IF Done(table) /\ processed = <<>> THEN table
    ELSE LET filtered == FilterSeq(Head(processed), V)
         IN  BuildNGrams(IF Len(filtered) >= n THEN AddWindows(table, filtered, n, 1) ELSE table,
                         Tail(processed), V, n)

RECURSIVE SumProbs(_)
\* sum(dist.values())
SumProbs(dist) == IF dist = <<>> THEN Zero ELSE FAdd(Head(dist).p, SumProbs(Tail(dist)))

NormalizeSkipped(dist) == dist

\* dist[word] /= total_count, for every word of dist
Normalize(dist) ==
    LET total == SumProbs(dist)
    IN  [ i \in 1..Len(dist) |-> [w |-> dist[i].w, p |-> FDiv(dist[i].p, total)] ]

\* "Convert counts to probabilities"
ToProbabilities(table) == [ c \in DOMAIN table |-> Normalize(table[c]) ]

\* the vocabulary that train(sentences) computes on m
TrainedVocabulary(m, sentences) ==
    FilterVocabulary(
        UpdateWordCounts(m.word_counts, ProcessedSentences(m.n_gram_size, sentences)),
        m.min_word_count)

TrainBodyUnfiltered(m, sentences, order) ==
    LET processed == ProcessedSentences(m.n_gram_size, sentences)
        wc == UpdateWordCounts(m.word_counts, processed)
        V == FilterVocabulary(wc, m.min_word_count)
        w2i == WordToId(V)
    IN  [ n_gram_size       |-> m.n_gram_size,
          min_word_count    |-> m.min_word_count,
          word_to_id        |-> w2i,
          id_to_word        |-> IdToWord(w2i),
          vocabulary        |-> V,
          vocab_iter        |-> order,
          word_counts       |-> wc,
          n_grams           |-> ToProbabilities(
                                    BuildNGrams(m.n_grams, processed, DOMAIN wc,
                                                m.n_gram_size)),
          sentence_starters |-> TrackStarters(m.sentence_starters, processed),
          is_trained        |-> TRUE ]

\* train(sentences) past its first check; order is the order in which the new
\* vocabulary set iterates
TrainBody(m, sentences, order) ==
         LET processed == ProcessedSentences(m.n_gram_size, sentences)
             wc == UpdateWordCounts(m.word_counts, processed)
             V == FilterVocabulary(wc, m.min_word_count)
             w2i == WordToId(V)
         IN  [ n_gram_size       |-> m.n_gram_size,
               min_word_count    |-> m.min_word_count,
               word_to_id        |-> w2i,
               id_to_word        |-> IdToWord(w2i),
               vocabulary        |-> V,
               vocab_iter        |-> order,
               word_counts       |-> wc,
               n_grams           |-> ToProbabilities(
                                         BuildNGrams(m.n_grams, processed, V, m.n_gram_size)),
               sentence_starters |-> TrackStarters(m.sentence_starters, processed),
               is_trained        |-> TRUE ]

TrainOpUnguarded(m, sentences, order) == TrainBody(m, sentences, order)

\* train(sentences) on m: nothing is done for an empty list
TrainOp(m, sentences, order) ==
    IF sentences = <<>> THEN m ELSE TrainBody(m, sentences, order)

-----------------------------------------------------------------------------
(* The random source: a periodic stream of draws, each a fraction in       *)
(* [0, 1).  The k-th draw (from 0) of a call is Draw(draws, k).            *)

Draw(draws, k) == draws[(k % Len(draws)) + 1]

\* random.choice(seq) on a non-empty seq, by the draw r
Choice(seq, r) == seq[((r[1] * Len(seq)) \div r[2]) + 1]

-----------------------------------------------------------------------------
(* _sample_word_builtin.                                                   *)

RECURSIVE MaxProb(_)
\* max(probs)
MaxProb(dist) ==
    IF Len(dist) = 1 THEN dist[1].p
    ELSE LET r == MaxProb(Tail(dist))
         IN  IF FLess(Head(dist).p, r) THEN r ELSE Head(dist).p

\* 1.0 / temperature, for the temperatures of the model (1 and the unit fractions)
InverseTemperature(temperature) == temperature[2] \div temperature[1]

\* math.pow(p, 1.0 / temperature) for every p, unless temperature is 1.0
ScaleProbs(dist, temperature) ==
    IF temperature # One
    THEN [ i \in 1..Len(dist) |->
             [w |-> dist[i].w, p |-> FPow(dist[i].p, InverseTemperature(temperature))] ]
    ELSE dist

RECURSIVE CumulativePick(_, _, _, _)
\* the first position whose cumulative probability reaches rand, 0 when none does
CumulativePick(probs, rand, cumulative, i) ==
    IF i > Len(probs) THEN 0
    ELSE LET c == FAdd(cumulative, probs[i].p)
         IN  IF FLeq(rand, c) THEN i ELSE CumulativePick(probs, rand, c, i + 1)

GreedyByDraw(dist, draws, used) == [word |-> Choice(dist, Draw(draws, used)).w, used |-> used + 1]

\* temperature == 0: probs.index(max(probs)), the first entry of maximal probability
Greedy(dist, draws, used) ==
    LET m == MaxProb(dist)
        i == CHOOSE k \in 1..Len(dist) :
                /\ dist[k].p = m
                /\ \A j \in 1..(k - 1) : dist[j].p # m
    IN  [word |-> dist[i].w, used |-> used]

\* a temperature whose inverse is no whole number (0.8, the default): math.pow gives
\* powers that are no fractions.  Every word keeps a probability above 0 and the
\* cumulative pick can take any of them; the draw is taken for the position it picks
SamplePowered(dist, draws, used) ==
    [word |-> Choice(dist, Draw(draws, used)).w, used |-> used + 1]

\* _sample_word_builtin(word_probs, temperature), the random source having given
\* `used` draws already: the word returned and the draws given after it
SampleWord(dist, temperature, draws, used) ==
    IF temperature = Zero THEN Greedy(dist, draws, used)
    ELSE IF temperature[1] # 1 THEN SamplePowered(dist, draws, used)
    ELSE LET scaled == ScaleProbs(dist, temperature)
             total == SumProbs(scaled)
         IN  IF total = Zero
             THEN [word |-> Choice(dist, Draw(draws, used)).w, used |-> used + 1]
             ELSE LET probs == Normalize(scaled)
                      i == CumulativePick(probs, Draw(draws, used), Zero, 1)
                  IN  [word |-> IF i = 0 THEN dist[Len(dist)].w ELSE dist[i].w,
                       used |-> used + 1]

-----------------------------------------------------------------------------
(* generate_text on a trained model.                                       *)

\* n_grams.get(context, {})
Lookup(table, ctx) == IF ctx \in DOMAIN table THEN table[ctx] ELSE <<>>

\* the last n_gram_size - 1 words, or all of them when there are fewer
LastContext(words, n) ==
    IF Len(words) >= n - 1 THEN SubSeq(words, Len(words) - (n - 1) + 1, Len(words))
    ELSE words

\* the distribution generate_text resolves for the words generated so far: that of the
\* context, else that of the context without its oldest word; <<>> when neither is there
ResolveForGenerate(table, n, words) ==
    LET context == LastContext(words, n)
        probs == Lookup(table, context)
    IN  IF probs = <<>> /\ Len(context) > 1
        THEN [ctx |-> Tail(context), dist |-> Lookup(table, Tail(context))]
        ELSE [ctx |-> context, dist |-> probs]

\* one pass of the generation loop: the step taken (at: the number of words generated
\* before it), "IndexError" when random.choice is given an empty vocabulary
StepFrom(m, r, words, temperature, draws, used) ==
    IF r.dist = <<>>
    THEN IF m.vocab_iter = <<>>
         THEN [raised |-> "IndexError", at |-> Len(words), found |-> FALSE, ctx |-> r.ctx,
               dist |-> r.dist, word |-> "", used |-> used]
         ELSE [raised |-> "none", at |-> Len(words), found |-> FALSE, ctx |-> r.ctx,
               dist |-> r.dist, word |-> Choice(m.vocab_iter, Draw(draws, used)),
               used |-> used + 1]
    ELSE LET s == SampleWord(r.dist, temperature, draws, used)
         IN  [raised |-> "none", at |-> Len(words), found |-> TRUE, ctx |-> r.ctx,
              dist |-> r.dist, word |-> s.word, used |-> s.used]

GenerateStep(m, words, temperature, draws, used) ==
    StepFrom(m, ResolveForGenerate(m.n_grams, m.n_gram_size, words), words, temperature,
             draws, used)

RECURSIVE GenerateLoop(_, _, _, _, _, _, _)
\* the loop after the pass st, without the break on a sentence ending
AfterStepNoBreak(m, st, words, left, temperature, draws, steps) ==
    IF st.raised # "none"
    THEN [raised |-> st.raised, words |-> words, steps |-> Append(steps, st),
          used |-> st.used]
    ELSE GenerateLoop(m, Append(words, st.word), left - 1, temperature, draws,
                      st.used, Append(steps, st))

\* the loop after the pass st: generated_words.append(next_word), and the break
AfterStep(m, st, words, left, temperature, draws, steps) ==
    IF st.raised # "none"
    THEN [raised |-> st.raised, words |-> words, steps |-> Append(steps, st),
          used |-> st.used]
    ELSE IF InTerminals(st.word)
    THEN [raised |-> "none", words |-> Append(words, st.word),
          steps |-> Append(steps, st), used |-> st.used]
    ELSE GenerateLoop(m, Append(words, st.word), left - 1, temperature, draws,
                      st.used, Append(steps, st))

\* for _ in range(max_length): ... ; `left` passes remain
GenerateLoop(m, words, left, temperature, draws, used, steps) ==
    IF Done(steps) /\ left <= 0
    THEN [raised |-> "none", words |-> words, steps |-> steps, used |-> used]
    ELSE AfterStep(m, GenerateStep(m, words, temperature, draws, used), words, left,
                   temperature, draws, steps)

\* the words generation starts from, "IndexError" when random.choice is given an empty
\* vocabulary; starters is list(set(sentence_starters)) in the order that set iterates
SeedWords(m, prompt, draws, starters) ==
    IF prompt.text # ""
    THEN [raised |-> "none", used |-> 0,
          words |-> FilterSeq(PreprocessSentence(prompt.tokens), m.vocabulary)]
    ELSE IF m.sentence_starters # <<>>
    THEN [raised |-> "none", used |-> 1,
          words |-> <<Lower(Choice(starters, Draw(draws, 0)))>>]
    ELSE IF m.vocab_iter = <<>>
    THEN [raised |-> "IndexError", used |-> 0, words |-> <<>>]
    ELSE [raised |-> "none", used |-> 1, words |-> <<Choice(m.vocab_iter, Draw(draws, 0))>>]

RECURSIVE AttachPunctuation(_, _)
\* formatted[-1] += word for a terminal symbol, formatted.append(word) otherwise
AttachPunctuation(formatted, words) ==
    IF Done(formatted) /\ words = <<>> THEN formatted
    ELSE LET word == Head(words)
             last == Len(formatted)
         IN  AttachPunctuation(
                 IF InTerminals(word)
                 THEN [formatted EXCEPT ![last] = formatted[last] \o word]
                 ELSE Append(formatted, word),
                 Tail(words))

RECURSIVE Join(_)
\* ' '.join(pieces)
Join(pieces) ==
    IF pieces = <<>> THEN ""
    ELSE IF Len(pieces) = 1 THEN pieces[1]
    ELSE pieces[1] \o " " \o Join(Tail(pieces))

\* _format_output; the final re.sub finds nothing to change, no piece after the first
\* beginning with a terminal symbol
FormatOutput(words) ==
    IF words = <<>> THEN ""
    ELSE Join(AttachPunctuation(<<Capitalize(words[1])>>, Tail(words)))

\* the attributes the trained path of generate_text reads
TrainedReads == {"is_trained", "vocabulary", "sentence_starters", "n_grams", "n_gram_size"}

\* generate_text(prompt, max_length, temperature) on a trained m
GenerateTrained(m, prompt, max_length, temperature, draws, starters) ==
    LET seed == SeedWords(m, prompt, draws, starters)
    IN  IF seed.raised # "none"
        THEN [raised |-> seed.raised, value |-> "", reads |-> TrainedReads,
              used |-> seed.used, words |-> <<>>, steps |-> <<>>]
        ELSE LET run == GenerateLoop(m, seed.words, max_length, temperature, draws,
                                     seed.used, <<>>)
             IN  [raised |-> run.raised,
                  value |-> IF run.raised = "none" THEN FormatOutput(run.words) ELSE "",
                  reads |-> TrainedReads, used |-> run.used,
                  words |-> run.words, steps |-> run.steps]

-----------------------------------------------------------------------------
(* generate_text on an untrained model: _generate_basic_text.              *)

\* basic_grammar
BasicStarters == <<"The", "A", "An", "In", "On", "At", "Once", "When", "After", "Before">>
BasicCommonWords ==
    <<"the", "a", "an", "and", "or", "but", "in", "on", "at", "to", "for", "of", "with", "by">>
BasicPunctuation == <<".", "!", "?">>

BasicCap == 20
BasicLabel == "Model not trained. Basic output: "
Placeholder == "[WORD]"

\* the chance of a common word, 0.3
CommonWordChance == <<3, 10>>

Min(a, b) == IF a < b THEN a ELSE b

RECURSIVE BasicFillers(_, _, _, _)
\* for _ in range(min(max_length, 20)): a common word or the placeholder
BasicFillers(words, left, draws, used) ==
    IF left <= 0 THEN [words |-> words, used |-> used]
    ELSE IF FLess(Draw(draws, used), CommonWordChance)
    THEN BasicFillers(Append(words, Choice(BasicCommonWords, Draw(draws, used + 1))),
                      left - 1, draws, used + 2)
    ELSE BasicFillers(Append(words, Placeholder), left - 1, draws, used + 1)

BasicSeedFromModel(m, prompt, draws) ==
    IF prompt.text # "" THEN [words |-> prompt.split, used |-> 0, reads |-> {"is_trained"}]
    ELSE [words |-> IF m.sentence_starters = <<>> THEN <<Choice(BasicStarters, Draw(draws, 0))>>
                    ELSE <<Choice(m.sentence_starters, Draw(draws, 0))>>,
          used |-> 1, reads |-> {"is_trained", "sentence_starters"}]

\* the words _generate_basic_text starts from: prompt.split(), or one fixed starter
BasicSeed(m, prompt, draws) ==
    IF prompt.text # "" THEN [words |-> prompt.split, used |-> 0, reads |-> {"is_trained"}]
    ELSE [words |-> <<Choice(BasicStarters, Draw(draws, 0))>>, used |-> 1,
          reads |-> {"is_trained"}]

\* _generate_basic_text(prompt, max_length)
GenerateBasicText(m, prompt, max_length, draws) ==
    LET seed == BasicSeed(m, prompt, draws)
        fill == BasicFillers(seed.words, Min(max_length, BasicCap), draws, seed.used)
        words == Append(fill.words, Choice(BasicPunctuation, Draw(draws, fill.used)))
    IN  [raised |-> "none", value |-> BasicLabel \o Join(words), reads |-> seed.reads,
         used |-> fill.used + 1, words |-> words, steps |-> <<>>]

\* generate_text(prompt, max_length, temperature)
GenerateTextOp(m, prompt, max_length, temperature, draws, starters) ==
    IF ~m.is_trained THEN GenerateBasicText(m, prompt, max_length, draws)
    ELSE GenerateTrained(m, prompt, max_length, temperature, draws, starters)

-----------------------------------------------------------------------------
(* suggest_next_words.                                                     *)

\* the list an untrained model answers with
SuggestStub ==
    << <<"not", <<1, 5>> >>, <<"trained", <<1, 5>> >>, <<"yet", <<1, 5>> >>,
       <<"please", <<1, 5>> >>, <<"wait", <<1, 5>> >> >>

\* the distribution suggest_next_words resolves for the words of the context text
ResolveForSuggest(table, n, words) ==
    LET context == LastContext(words, n)
        probs == Lookup(table, context)
    IN  IF probs = <<>> /\ Len(context) > 1
        THEN [ctx |-> Tail(context), dist |-> Lookup(table, Tail(context))]
        ELSE [ctx |-> context, dist |-> probs]

RECURSIVE InsertDescending(_, _)
\* e placed after every entry of the sorted list whose probability is not smaller
InsertDescending(sorted, e) ==
    IF sorted = <<>> THEN <<e>>
    ELSE IF FLess(Head(sorted).p, e.p) THEN <<e>> \o sorted
    ELSE <<Head(sorted)>> \o InsertDescending(Tail(sorted), e)

RECURSIVE SortDescending(_, _)
\* sorted(items, key=probability, reverse=True): stable, equal entries keep their order
SortDescending(sorted, dist) ==
    IF dist = <<>> THEN sorted
    ELSE SortDescending(InsertDescending(sorted, Head(dist)), Tail(dist))

\* suggestions[:num_suggestions], num_suggestions >= 0
TopK(sorted, k) == SubSeq(sorted, 1, Min(k, Len(sorted)))

\* suggest_next_words on a trained model, the entries taken in the order of the dict
SuggestTrainedUnsorted(m, context, k) ==
    LET words == FilterSeq(PreprocessSentence(context.tokens), m.vocabulary)
        r == ResolveForSuggest(m.n_grams, m.n_gram_size, words)
    IN  [raised |-> "none",
         value |-> [ i \in 1..Len(TopK(r.dist, k)) |-> <<r.dist[i].w, r.dist[i].p>> ],
         reads |-> {"is_trained", "vocabulary", "n_grams", "n_gram_size"},
         ctx |-> r.ctx, dist |-> r.dist]

\* suggest_next_words on a trained model
SuggestTrained(m, context, k) ==
    LET words == FilterSeq(PreprocessSentence(context.tokens), m.vocabulary)
        r == ResolveForSuggest(m.n_grams, m.n_gram_size, words)
        sorted == SortDescending(<<>>, r.dist)
    IN  [raised |-> "none",
         value |-> [ i \in 1..Len(TopK(sorted, k)) |-> <<sorted[i].w, sorted[i].p>> ],
         reads |-> {"is_trained", "vocabulary", "n_grams", "n_gram_size"},
         ctx |-> r.ctx, dist |-> r.dist]

\* a suggest_next_words whose untrained answer is cut to num_suggestions
SuggestStubCut(m, context, k) ==
    IF ~m.is_trained
    THEN [raised |-> "none", value |-> TopK(SuggestStub, k), reads |-> {"is_trained"},
          ctx |-> <<>>, dist |-> <<>>]
    ELSE SuggestTrained(m, context, k)

\* suggest_next_words(context, num_suggestions)
SuggestOp(m, context, k) ==
    IF ~m.is_trained
    THEN [raised |-> "none", value |-> SuggestStub, reads |-> {"is_trained"},
          ctx |-> <<>>, dist |-> <<>>]
    ELSE SuggestTrained(m, context, k)

-----------------------------------------------------------------------------
(* What a query leaves of the instance.  generate_text and                 *)
(* suggest_next_words assign no attribute; the one object they call a      *)
(* method of, beyond reading, is the table: n_grams.get(context, {}) on a  *)
(* defaultdict.                                                            *)

\* the contexts one resolution looks up: the last n - 1 words and, when that finds
\* nothing and has more than one word, the context without its oldest word
ContextsTried(table, n, words) ==
    LET context == LastContext(words, n)
    IN  IF Lookup(table, context) = <<>> /\ Len(context) > 1
        THEN <<context, Tail(context)>>
        ELSE <<context>>

\* the table after n_grams[context]: a defaultdict makes the entry that is missing
TableAfterIndex(table, ctx) ==
    [ c \in DOMAIN table \cup {ctx} |-> IF c \in DOMAIN table THEN table[c] ELSE <<>> ]

\* the table after n_grams.get(context, {}): get makes no entry
TableAfterGet(table, ctx) == table

RECURSIVE TableAfterLookups(_, _)
TableAfterLookups(table, contexts) ==
    IF contexts = <<>> THEN table
    ELSE TableAfterLookups(TableAfterGet(table, Head(contexts)), Tail(contexts))

RECURSIVE GenerateLookups(_, _, _)
\* the contexts the passes of a generate_text run looked up, pass after pass
GenerateLookups(m, words, steps) ==
    IF steps = <<>> THEN <<>>
    ELSE ContextsTried(m.n_grams, m.n_gram_size, SubSeq(words, 1, Head(steps).at))
            \o GenerateLookups(m, words, Tail(steps))

\* the contexts suggest_next_words looks up
SuggestLookups(m, context) ==
    ContextsTried(m.n_grams, m.n_gram_size,
                  FilterSeq(PreprocessSentence(context.tokens), m.vocabulary))

\* the instance after a query that looked the contexts up; the untrained paths
\* return before any lookup
ModelAfterQuery(m, contexts) ==
    IF ~m.is_trained THEN m
    ELSE [m EXCEPT !.n_grams = TableAfterLookups(m.n_grams, contexts)]

-----------------------------------------------------------------------------
(* save_model and load_model.  The file is the JSON object that json.dump  *)
(* writes: a dict keyed by strings holds, for an int key, its decimal      *)
(* string, and for a context tuple the text str() gives, here the sequence *)
(* of its pieces, ( 'aa' , 'bb' ).  A float is written and read back       *)
(* exactly.                                                                *)

\* the tokens a persisted context key can hold
KeyTokens == {"aa", "bb", "cc", "zz", ".", "!", "?"}

\* repr() of a token
Quote(token) == "'" \o token \o "'"

RECURSIVE ReprItems(_)
ReprItems(k) ==
    IF k = <<>> THEN <<>>
    ELSE IF Len(k) = 1 THEN <<Quote(k[1])>>
    ELSE <<Quote(k[1]), ", ">> \o ReprItems(Tail(k))

\* str(k) of a tuple of tokens: a tuple of one token is written with a comma after it
TupleToStr(k) ==
    IF Len(k) = 1 THEN <<"(", Quote(k[1]), ",", ")">>
    ELSE <<"(">> \o ReprItems(k) \o <<")">>

\* the token that a quoted piece of a key stands for
Unquote(piece) == CHOOSE token \in KeyTokens : Quote(token) = piece

RECURSIVE EvalItems(_)
EvalItems(pieces) ==
    IF pieces = <<>> THEN <<>>
    ELSE IF Head(pieces) \in {", ", ","} THEN EvalItems(Tail(pieces))
    ELSE <<Unquote(Head(pieces))>> \o EvalItems(Tail(pieces))

\* eval(k) of the text of a tuple of tokens
StrToTuple(text) == EvalItems(SubSeq(text, 2, Len(text) - 1))

Digits == <<"0", "1", "2", "3", "4", "5", "6", "7", "8", "9">>

\* str(i) of an id, as json.dump writes a dict key (ids stay below 100 here)
IntToStr(i) ==
    IF i < 10 THEN Digits[i + 1] ELSE Digits[(i \div 10) + 1] \o Digits[(i % 10) + 1]

\* int(k)
StrToInt(k) == CHOOSE i \in 0..99 : IntToStr(i) = k

\* {str(k): dict(v) for k, v in n_grams.items()}
SaveNGrams(table) ==
    [ k \in { TupleToStr(ctx) : ctx \in DOMAIN table } |->
        table[CHOOSE ctx \in DOMAIN table : TupleToStr(ctx) = k] ]

\* the dict id_to_word as JSON holds it: its keys are strings
SaveIdToWord(i2w) ==
    [ k \in { IntToStr(i) : i \in DOMAIN i2w } |->
        i2w[CHOOSE i \in DOMAIN i2w : IntToStr(i) = k] ]

\* save_model: the content of the file
SaveOp(m) ==
    [ exists            |-> TRUE,
      n_gram_size       |-> m.n_gram_size,
      min_word_count    |-> m.min_word_count,
      word_to_id        |-> m.word_to_id,
      id_to_word        |-> SaveIdToWord(m.id_to_word),
      vocabulary        |-> m.vocab_iter,
      word_counts       |-> m.word_counts,
      n_grams           |-> SaveNGrams(m.n_grams),
      sentence_starters |-> m.sentence_starters,
      is_trained        |-> m.is_trained ]

\* {int(k): v for k, v in model_data['id_to_word'].items()}
LoadIdToWord(saved) ==
    [ i \in { StrToInt(k) : k \in DOMAIN saved } |->
        saved[CHOOSE k \in DOMAIN saved : StrToInt(k) = i] ]

\* n_grams[eval(k)] = defaultdict(int, v), for every key of the file
LoadNGrams(saved) ==
    [ ctx \in { StrToTuple(k) : k \in DOMAIN saved } |->
        saved[CHOOSE k \in DOMAIN saved : StrToTuple(k) = ctx] ]

\* load_model from a file that holds every field; order is the order in which the
\* set made of the file's vocabulary list iterates
LoadOp(file, order) ==
    [ n_gram_size       |-> file.n_gram_size,
      min_word_count    |-> file.min_word_count,
      word_to_id        |-> file.word_to_id,
      id_to_word        |-> LoadIdToWord(file.id_to_word),
      vocabulary        |-> Range(file.vocabulary),
      vocab_iter        |-> order,
      word_counts       |-> file.word_counts,
      n_grams           |-> LoadNGrams(file.n_grams),
      sentence_starters |-> file.sentence_starters,
      is_trained        |-> file.is_trained ]

-----------------------------------------------------------------------------
(* Inputs.                                                                 *)

\* the (n_gram_size, min_word_count) a model is constructed with: the defaults of
\* __init__, and bigrams over every word
DefaultNGramSize == 3
DefaultMinCount == 2
Configs == { <<DefaultNGramSize, DefaultMinCount>>, <<2, 1>> }

\* the sentences that training draws from, each as its token sequence
SentenceAB == <<"Aa", "bb", ".">>
SentenceBAA == <<"bb", "x", ";", "aa", "7", "aa", "aa", ".">>
SentenceShort == <<"Aa", ".">>

\* the lists of sentences passed to train
SentenceLists ==
    { <<>>,
      <<SentenceAB>>,
      <<SentenceBAA>>,
      <<SentenceShort>>,
      <<SentenceAB, SentenceShort, SentenceBAA>> }

NoFile == [exists |-> FALSE]

\* the texts passed as prompt or context: the string, what str.split() makes of it and
\* the tokens the regular expression of _preprocess_sentence finds in it
Prompts ==
    { [text |-> "",      split |-> <<>>,            tokens |-> <<>>],
      [text |-> "zz",    split |-> <<"zz">>,        tokens |-> <<"zz">>],
      [text |-> "Aa bb", split |-> <<"Aa", "bb">>,  tokens |-> <<"Aa", "bb">>] }

\* the max_length values passed to generate_text
Lengths == {0, 2, BasicCap + 1}

Half == <<1, 2>>

\* the temperatures passed to generate_text
Temperatures == {Zero, Half, One}

\* the values the random source gives
DrawValues == {Zero, <<9, 10>>}

\* the streams of draws: the random source repeats them
DrawStreams == { <<d1, d2>> : d1 \in DrawValues, d2 \in DrawValues }

\* the num_suggestions values passed to suggest_next_words
DefaultSuggestions == 5
Counts == {0, 1, DefaultSuggestions}

\* what a call left behind: its name and arguments, the exception it raised ("none"
\* when it returned), its return value, the attributes of the instance it read, the
\* number of draws it took from the random source, and the course it took
Outcome(op, args, raised, value, reads, draws, trace) ==
    [op |-> op, args |-> args, raised |-> raised, value |-> value,
     reads |-> reads, draws |-> draws, trace |-> trace]

NoResult == Outcome("none", <<>>, "none", <<>>, {}, 0, <<>>)

-----------------------------------------------------------------------------
(* The state machine.                                                      *)

Init ==
    /\ \E c \in Configs :
          /\ model = NewModel(c[1], c[2])
          /\ loaded = NewModel(c[1], c[2])
    /\ result = NoResult
    /\ trains = 0
    /\ disk = NoFile
    /\ ServiceAtRest

\* model.train(sentences)
Train ==
    /\ trains < MaxTrains
    /\ \E sentences \in SentenceLists :
       \E order \in Orderings(TrainedVocabulary(model, sentences)) :
          /\ model' = TrainOp(model, sentences,
                              IF sentences = <<>> THEN model.vocab_iter ELSE order)
          /\ result' = Outcome("train", sentences, "none", <<>>, {}, 0, <<>>)
    /\ trains' = trains + 1
    /\ UNCHANGED <<disk, loaded, serviceVars>>

\* A query changes result alone, so the states two queries in a row reach are those
\* the second reaches by itself: a query is taken after a call that is no query.
QueryOps == {"generate", "suggest"}

\* model.generate_text(prompt, max_length, temperature), the prompt one of prompts
GenerateWith(prompts) ==
    /\ result.op \notin QueryOps
    /\ \E prompt \in prompts, max_length \in Lengths, temperature \in Temperatures,
          draws \in DrawStreams :
       \E starters \in Orderings({ model.sentence_starters[i] :
                                      i \in DOMAIN model.sentence_starters }) :
          LET r == GenerateTextOp(model, prompt, max_length, temperature, draws, starters)
          IN  /\ result' = Outcome("generate",
                                   [prompt |-> prompt, max_length |-> max_length,
                                    temperature |-> temperature],
                                   r.raised, r.value, r.reads, r.used,
                                   [words |-> r.words, steps |-> r.steps])
              /\ model' = ModelAfterQuery(model, GenerateLookups(model, r.words, r.steps))
    /\ UNCHANGED <<trains, disk, loaded, serviceVars>>

GenerateText == GenerateWith(Prompts)

\* model.suggest_next_words(context, num_suggestions), the context one of contexts
SuggestWith(contexts) ==
    /\ result.op \notin QueryOps
    /\ \E context \in contexts, k \in Counts :
          LET r == SuggestOp(model, context, k)
          IN  /\ result' = Outcome("suggest", [context |-> context, k |-> k],
                                   r.raised, r.value, r.reads, 0,
                                   [ctx |-> r.ctx, dist |-> r.dist])
              /\ model' = ModelAfterQuery(model, SuggestLookups(model, context))
    /\ UNCHANGED <<trains, disk, loaded, serviceVars>>

SuggestNextWords == SuggestWith(Prompts)

Next == Train \/ GenerateText \/ SuggestNextWords

Spec == Init /\ [][Next]_vars

\* model.save_model(filepath)
SaveModel ==
    /\ disk' = SaveOp(model)
    /\ result' = Outcome("save", <<>>, "none", <<>>, {}, 0, <<>>)
    /\ UNCHANGED <<model, trains, loaded, serviceVars>>

\* SimpleLanguageModelBuiltin().load_model(filepath): the second instance is filled from
\* the file; open() raises when there is no file
LoadModel ==
    /\ IF disk.exists
       THEN \E order \in Orderings(Range(disk.vocabulary)) :
               /\ loaded' = LoadOp(disk, order)
               /\ result' = Outcome("load", <<>>, "none", <<>>, {}, 0, <<>>)
       ELSE /\ loaded' = loaded
            /\ result' = Outcome("load", <<>>, "FileNotFoundError", <<>>, {}, 0, <<>>)
    /\ UNCHANGED <<model, trains, disk, serviceVars>>

NextPersist == Train \/ SaveModel \/ LoadModel

\* training, saving and loading, without queries
SpecPersist == Init /\ [][NextPersist]_vars

-----------------------------------------------------------------------------
(* Model files that training did not write.  load_model takes whatever a   *)
(* well-formed file holds: here tables whose context keys have one, two or *)
(* three tokens, under an n_gram_size of 2, 3 or 4.  Each key predicts one *)
(* token of its own, which tells the entries apart.                        *)

FileKeys == { <<"cc">>, <<"bb", "cc">>, <<"aa", "bb", "cc">> }

FilePrediction(ctx) ==
    CASE Len(ctx) = 1 -> "aa"
      [] Len(ctx) = 2 -> "bb"
      [] OTHER -> "cc"

\* a trained model over the words aa, bb, cc whose table holds the given keys
FileModel(n, keys) ==
    [ n_gram_size       |-> n,
      min_word_count    |-> 1,
      word_to_id        |-> WordToId({"aa", "bb", "cc"}),
      id_to_word        |-> IdToWord(WordToId({"aa", "bb", "cc"})),
      vocabulary        |-> {"aa", "bb", "cc"},
      vocab_iter        |-> <<"aa", "bb", "cc">>,
      word_counts       |-> [w \in {"aa", "bb", "cc"} |-> 3],
      n_grams           |-> [ctx \in keys |-> <<[w |-> FilePrediction(ctx), p |-> One]>>],
      sentence_starters |-> <<>>,
      is_trained        |-> TRUE ]

ModelFiles == { SaveOp(FileModel(n, keys)) : n \in {2, 3, 4}, keys \in SUBSET FileKeys }

\* the texts passed as prompt or context to a model loaded from such a file
LongPrompts ==
    { [text |-> "Aa bb cc", split |-> <<"Aa", "bb", "cc">>, tokens |-> <<"Aa", "bb", "cc">>],
      [text |-> "bb cc",    split |-> <<"bb", "cc">>,       tokens |-> <<"bb", "cc">>] }

InitBackoff ==
    /\ model = NewModel(DefaultNGramSize, DefaultMinCount)
    /\ loaded = NewModel(DefaultNGramSize, DefaultMinCount)
    /\ result = NoResult
    /\ trains = 0
    /\ disk \in ModelFiles
    /\ ServiceAtRest

\* model.load_model(filepath), as BookWritingChatbot.__init__ calls it on its model
LoadModelFile ==
    /\ disk.exists
    /\ \E order \in Orderings(Range(disk.vocabulary)) :
          /\ model' = LoadOp(disk, order)
          /\ result' = Outcome("load", <<>>, "none", <<>>, {}, 0, <<>>)
    /\ UNCHANGED <<trains, disk, loaded, serviceVars>>

GenerateAfterLoad == GenerateWith(LongPrompts)

SuggestAfterLoad == SuggestWith(LongPrompts)

NextBackoff == LoadModelFile \/ GenerateAfterLoad \/ SuggestAfterLoad

\* queries on a model loaded from a model file
SpecBackoff == InitBackoff /\ [][NextBackoff]_vars

-----------------------------------------------------------------------------
(* Training: the claims.                                                   *)

\* the recorded frequency of a token
Frequency(m, token) == IF token \in DOMAIN m.word_counts THEN m.word_counts[token] ELSE 0

\* the tokens of the table: those of its context keys and those it predicts
TableTokens(m) ==
    UNION { { ctx[i] : i \in DOMAIN ctx } \cup { m.n_grams[ctx][i].w : i \in DOMAIN m.n_grams[ctx] } :
            ctx \in DOMAIN m.n_grams }

\* the attributes that train computes from the corpus
CorpusState(m) ==
    <<m.word_counts, m.vocabulary, m.word_to_id, m.id_to_word, m.n_grams,
      m.sentence_starters>>

\* C1: after a completed train call on a non-empty list, a second or later one
\* included, the next-token probabilities of every context key of the table sum to 1.
C1_ProbabilitiesSumToOne ==
    model.is_trained =>
        \A ctx \in DOMAIN model.n_grams : SumProbs(model.n_grams[ctx]) = <<1, 1>>

\* a second train call has added to a distribution that the first one made
C1_Witness ==
    /\ trains = 2
    /\ result.op = "train"
    /\ result.args # <<>>
    /\ \E ctx \in DOMAIN model.n_grams :
          /\ Len(model.n_grams[ctx]) >= 2
          /\ \E i \in DOMAIN model.n_grams[ctx] : model.n_grams[ctx][i].p[2] > 2

\* C2: every vocabulary token has a recorded frequency of at least min_word_count, and
\* no token of a lower frequency is in the table, in a context key or as a prediction.
C2_VocabularyAboveMinimum ==
    /\ \A w \in model.vocabulary : Frequency(model, w) >= model.min_word_count
    /\ \A w \in TableTokens(model) : Frequency(model, w) >= model.min_word_count

\* training has dropped a counted token and built a table from the rest
C2_Witness ==
    /\ result.op = "train"
    /\ \E w \in DOMAIN model.word_counts : model.word_counts[w] < model.min_word_count
    /\ DOMAIN model.n_grams # {}

\* C3: a later train call replaces the earlier state: after train(B) the model equals a
\* fresh model of the same configuration after train(B) alone.
C3_TrainReplacesState ==
    (result.op = "train" /\ result.args # <<>>) =>
        CorpusState(model) =
            CorpusState(TrainOp(NewModel(model.n_gram_size, model.min_word_count),
                                result.args, model.vocab_iter))

\* C4 as claimed: train on an empty list raises.
C4_EmptyTrainRaises ==
    (result.op = "train" /\ result.args = <<>>) => result.raised # "none"

\* C4 as amended: train on an empty list returns without raising and leaves the model
\* as it was.
C4_EmptyTrainReturnsUnchanged ==
    [][ (result'.op = "train" /\ result'.args = <<>> /\ trains' = trains + 1)
            => (result'.raised = "none" /\ model' = model) ]_vars

\* train has been called with an empty list, on an untrained model
C4_Witness ==
    /\ result.op = "train"
    /\ result.args = <<>>
    /\ trains >= 1
    /\ ~model.is_trained

-----------------------------------------------------------------------------
(* Queries: the claims.                                                    *)

\* C5: generate_text returns a string and never raises, whatever the state and the
\* arguments.
C5_GenerateNeverRaises ==
    result.op = "generate" => result.raised = "none"

\* C6: while is_trained is false generate_text reads neither the table, the vocabulary
\* nor the sentence starters, and returns the label, then the prompt's words (one fixed
\* starter for an empty prompt), then min(max_length, 20) fillers, each a fixed common
\* word or the placeholder, then one mark of . ! ?
C6_UntrainedPlaceholder ==
    (result.op = "generate" /\ ~model.is_trained) =>
        LET words == result.trace.words
            fillers == IF result.args.max_length < 20 THEN result.args.max_length ELSE 20
            seeded == Len(words) - fillers - 1
        IN  /\ result.raised = "none"
            /\ result.reads \cap {"n_grams", "vocabulary", "sentence_starters",
                                  "word_counts", "word_to_id", "id_to_word"} = {}
            /\ result.value = "Model not trained. Basic output: " \o Join(words)
            /\ seeded >= 0
            /\ IF result.args.prompt.text # ""
               THEN SubSeq(words, 1, seeded) = result.args.prompt.split
               ELSE seeded = 1 /\ words[1] \in {"The", "A", "An", "In", "On", "At", "Once",
                                                "When", "After", "Before"}
            /\ \A i \in (seeded + 1)..(seeded + fillers) :
                  words[i] \in {"the", "a", "an", "and", "or", "but", "in", "on", "at", "to",
                                "for", "of", "with", "by", "[WORD]"}
            /\ words[Len(words)] \in {".", "!", "?"}

\* an untrained model was asked for more than 20 words, and gave a common word
C6_Witness ==
    /\ result.op = "generate"
    /\ ~model.is_trained
    /\ result.args.max_length > 20
    /\ result.args.prompt.text = ""
    /\ Len(result.trace.words) = 22
    /\ \E i \in DOMAIN result.trace.words : result.trace.words[i] = "with"
    /\ \E i \in DOMAIN result.trace.words : result.trace.words[i] = "[WORD]"

\* C7: while is_trained is false suggest_next_words returns the same fixed list for
\* every context and every count, without raising and without reading table or
\* vocabulary.
C7_UntrainedSuggestStub ==
    (result.op = "suggest" /\ ~model.is_trained) =>
        /\ result.raised = "none"
        /\ result.value = << <<"not", <<1, 5>> >>, <<"trained", <<1, 5>> >>,
                             <<"yet", <<1, 5>> >>, <<"please", <<1, 5>> >>,
                             <<"wait", <<1, 5>> >> >>
        /\ result.reads \cap {"n_grams", "vocabulary"} = {}

\* an untrained model was asked for no suggestion at all
C7_Witness ==
    /\ result.op = "suggest"
    /\ ~model.is_trained
    /\ result.args.k = 0
    /\ result.args.context.text # ""

\* the non-empty suffixes of a context that have an entry in the table
PresentSuffixes(table, ctx) ==
    { SubSeq(ctx, i, Len(ctx)) : i \in { j \in 1..Len(ctx) :
                                          Lookup(table, SubSeq(ctx, j, Len(ctx))) # <<>> } }

LongestOf(S) == CHOOSE s \in S : \A t \in S : Len(t) <= Len(s)

\* C8: when the full context has no entry and a shorter non-empty suffix of it has one,
\* generate_text samples from, and suggest_next_words answers from, the entry of the
\* longest such suffix; a random vocabulary token, or an empty answer, comes only when
\* no non-empty suffix has an entry.
C8_BackoffUsesLongestSuffix ==
    /\ (result.op = "generate" /\ model.is_trained) =>
          \A i \in DOMAIN result.trace.steps :
             LET st == result.trace.steps[i]
                 full == LastContext(SubSeq(result.trace.words, 1, st.at), model.n_gram_size)
                 present == PresentSuffixes(model.n_grams, full)
             IN  IF present = {} THEN ~st.found
                 ELSE /\ st.found
                      /\ st.dist = model.n_grams[LongestOf(present)]
                      /\ \E k \in DOMAIN st.dist : st.dist[k].w = st.word
    /\ (result.op = "suggest" /\ model.is_trained) =>
          LET words == FilterSeq(PreprocessSentence(result.args.context.tokens),
                                 model.vocabulary)
              full == LastContext(words, model.n_gram_size)
              present == PresentSuffixes(model.n_grams, full)
          IN  IF present = {} THEN result.value = <<>>
              ELSE /\ result.trace.dist = model.n_grams[LongestOf(present)]
                   /\ \A i \in DOMAIN result.value :
                         \E k \in DOMAIN result.trace.dist :
                            result.value[i] = <<result.trace.dist[k].w, result.trace.dist[k].p>>
                   /\ result.args.k > 0 => result.value # <<>>

\* the words generated before the i-th pass of a run
Before(run, i) == SubSeq(run.words, 1, run.steps[i].at)

\* C9: with temperature 0 a pass that finds a table entry takes a token of maximal
\* probability from it and no draw from the random source, and two runs from the same
\* state, whatever the random source gives them, take the same token wherever they
\* find an entry after the same words.
C9_GreedyIsDeterministic ==
    (result.op = "generate" /\ model.is_trained /\ result.args.temperature = <<0, 1>>) =>
        LET run == result.trace
        IN  /\ \A i \in DOMAIN run.steps :
                  run.steps[i].found =>
                      /\ \E k \in DOMAIN run.steps[i].dist :
                            /\ run.steps[i].dist[k].w = run.steps[i].word
                            /\ \A j \in DOMAIN run.steps[i].dist :
                                  FLeq(run.steps[i].dist[j].p, run.steps[i].dist[k].p)
                      /\ run.steps[i].used =
                            (IF i = 1 THEN (IF result.args.prompt.text = "" THEN 1 ELSE 0)
                             ELSE run.steps[i - 1].used)
            /\ \A draws \in DrawStreams :
                  LET other == GenerateTextOp(model, result.args.prompt,
                                              result.args.max_length, <<0, 1>>, draws, <<>>)
                  IN  \A i \in DOMAIN run.steps, j \in DOMAIN other.steps :
                         ( /\ run.steps[i].found
                           /\ other.steps[j].found
                           /\ Before(run, i) = Before(other, j) )
                             => run.steps[i].word = other.steps[j].word

\* a greedy pass chose among several tokens, in a run that also drew at random
C9_Witness ==
    /\ result.op = "generate"
    /\ model.is_trained
    /\ result.args.temperature = <<0, 1>>
    /\ result.draws > 0
    /\ \E i \in DOMAIN result.trace.steps :
          /\ result.trace.steps[i].found
          /\ Len(result.trace.steps[i].dist) >= 2

-----------------------------------------------------------------------------
(* Persistence: the claims.                                                *)

\* the attributes that save_model writes, the vocabulary as the set it is
PersistedState(m) ==
    <<m.n_gram_size, m.min_word_count, m.vocabulary, m.word_counts, m.word_to_id,
      m.id_to_word, m.sentence_starters, m.is_trained, m.n_grams>>

\* the second instance has just been loaded from a file saved from model as it is now
RoundTripDone ==
    /\ result.op = "load"
    /\ result.raised = "none"
    /\ disk.exists
    /\ disk = SaveOp(model)

\* save_model then load_model gives back every attribute, value for value
RoundTripRestoresAttributes ==
    RoundTripDone => PersistedState(loaded) = PersistedState(model)

\* C10: save_model then load_model into a fresh instance restores every attribute, so
\* that generate_text, given the same random draws, returns the same text on both.
C10_RoundTripSameOutput ==
    RoundTripDone =>
        /\ PersistedState(loaded) = PersistedState(model)
        /\ \A prompt \in Prompts, max_length \in Lengths, temperature \in Temperatures,
              draws \in DrawStreams :
              LET a == GenerateTextOp(model, prompt, max_length, temperature, draws, <<>>)
                  b == GenerateTextOp(loaded, prompt, max_length, temperature, draws, <<>>)
              IN  a.raised = b.raised /\ a.value = b.value

-----------------------------------------------------------------------------
(* One train call on a fresh model, over every corpus of up to MaxCorpus   *)
(* sentences.                                                              *)

SentenceBB == <<"Bb", "bb", "aa", "!">>

CorpusSentences == {SentenceAB, SentenceBAA, SentenceShort, SentenceBB}

CorpusLists == UNION { [1..k -> CorpusSentences] : k \in 0..MaxCorpus }

\* model.train(sentences), the first call on the instance
TrainCorpus ==
    /\ trains = 0
    /\ \E sentences \in CorpusLists :
       \E order \in Orderings(TrainedVocabulary(model, sentences)) :
          /\ model' = TrainOp(model, sentences,
                              IF sentences = <<>> THEN model.vocab_iter ELSE order)
          /\ result' = Outcome("train", sentences, "none", <<>>, {}, 0, <<>>)
    /\ trains' = trains + 1
    /\ UNCHANGED <<disk, loaded, serviceVars>>

NextCorpus == TrainCorpus

SpecCorpus == Init /\ [][NextCorpus]_vars

\* the width-n windows of the vocabulary-filtered sentences: <<k, i>> is the window of
\* sentence k that starts at its i-th remaining token
WindowsOf(sentences, V, n) ==
    { x \in (DOMAIN sentences) \X (1..8) :
         x[2] + n - 1 <= Len(FilterSeq(PreprocessSentence(sentences[x[1]]), V)) }

WindowContext(sentences, V, n, x) ==
    SubSeq(FilterSeq(PreprocessSentence(sentences[x[1]]), V), x[2], x[2] + n - 2)

WindowLast(sentences, V, n, x) ==
    FilterSeq(PreprocessSentence(sentences[x[1]]), V)[x[2] + n - 1]

\* C19: after one train call on a fresh model, the table holds exactly the contexts of
\* the width-n windows of the vocabulary-filtered sentences, and gives each token w
\* after a context c the number of windows (c, w) divided by the number of windows
\* that start with c; nothing else has an entry.
C19_TableIsMaximumLikelihood ==
    (trains = 1 /\ result.op = "train") =>
       LET sentences == result.args
           V == model.vocabulary
           n == model.n_gram_size
           windows == WindowsOf(sentences, V, n)
           with(c) == { x \in windows : WindowContext(sentences, V, n, x) = c }
           pairs(c, w) == { x \in with(c) : WindowLast(sentences, V, n, x) = w }
       IN  /\ DOMAIN model.n_grams = { WindowContext(sentences, V, n, x) : x \in windows }
           /\ \A c \in DOMAIN model.n_grams :
                 LET dist == model.n_grams[c]
                 IN  /\ { dist[i].w : i \in DOMAIN dist }
                           = { WindowLast(sentences, V, n, x) : x \in with(c) }
                     /\ \A i, j \in DOMAIN dist : dist[i].w = dist[j].w => i = j
                     /\ \A i \in DOMAIN dist :
                           dist[i].p = Frac(Cardinality(pairs(c, dist[i].w)),
                                            Cardinality(with(c)))

\* a corpus was trained on whose table gives some context two tokens of unequal weight
C19_Witness ==
    /\ trains = 1
    /\ result.op = "train"
    /\ \E c \in DOMAIN model.n_grams :
          \E i, j \in DOMAIN model.n_grams[c] :
             FLess(model.n_grams[c][i].p, model.n_grams[c][j].p)

\* the number of times token w occurs in the sentences, all of them counted
CorpusFrequency(sentences, w) ==
    Cardinality({ x \in (DOMAIN sentences) \X (1..8) :
                     /\ x[2] <= Len(PreprocessSentence(sentences[x[1]]))
                     /\ PreprocessSentence(sentences[x[1]])[x[2]] = w })

\* C20: after train on a fresh model the vocabulary is exactly the set of tokens that
\* occur at least min_word_count times in the sentences passed to train, a sentence of
\* any number of tokens counted.
C20_VocabularyIsFrequentTokens ==
    (trains = 1 /\ result.op = "train" /\ result.args # <<>>) =>
       model.vocabulary =
          { w \in UNION { Range(PreprocessSentence(result.args[k])) : k \in DOMAIN result.args } :
               CorpusFrequency(result.args, w) >= model.min_word_count }

-----------------------------------------------------------------------------
(* load_model on a file that is missing, is not JSON, or is a JSON object  *)
(* without one of the fields, and the chatbot constructor that calls it.   *)

\* the keys load_model reads from the file, in the order in which it reads them
RequiredFields ==
    <<"n_gram_size", "min_word_count", "word_to_id", "id_to_word", "vocabulary",
      "word_counts", "n_grams", "sentence_starters", "is_trained">>

\* a file whose text json.load cannot parse
GarbledFile == [exists |-> TRUE, text |-> "{not json"]

\* the JSON object of file without the key named field
WithoutField(file, field) == [k \in (DOMAIN file) \ {field} |-> file[k]]

IsJson(file) == "text" \notin DOMAIN file

\* the position in RequiredFields of the first key the file lacks, one past the last
\* when it has them all
FirstMissing(file) ==
    IF \A i \in DOMAIN RequiredFields : RequiredFields[i] \in DOMAIN file
    THEN Len(RequiredFields) + 1
    ELSE CHOOSE i \in DOMAIN RequiredFields :
            /\ RequiredFields[i] \notin DOMAIN file
            /\ \A j \in 1..(i - 1) : RequiredFields[j] \in DOMAIN file

\* the instance after load_model assigned the fields before the k-th: n_grams is
\* emptied before the file's n_grams is looked up
AssignedBefore(m, file, order, k) ==
    [ n_gram_size       |-> IF k > 1 THEN file.n_gram_size ELSE m.n_gram_size,
      min_word_count    |-> IF k > 2 THEN file.min_word_count ELSE m.min_word_count,
      word_to_id        |-> IF k > 3 THEN file.word_to_id ELSE m.word_to_id,
      id_to_word        |-> IF k > 4 THEN LoadIdToWord(file.id_to_word) ELSE m.id_to_word,
      vocabulary        |-> IF k > 5 THEN Range(file.vocabulary) ELSE m.vocabulary,
      vocab_iter        |-> IF k > 5 THEN order ELSE m.vocab_iter,
      word_counts       |-> IF k > 6 THEN file.word_counts ELSE m.word_counts,
      n_grams           |-> IF k > 7 THEN LoadNGrams(file.n_grams)
                            ELSE IF k = 7 THEN NoWords ELSE m.n_grams,
      sentence_starters |-> IF k > 8 THEN file.sentence_starters ELSE m.sentence_starters,
      is_trained        |-> IF k > 9 THEN file.is_trained ELSE m.is_trained ]

\* a load_model that reads every field with a default, and so returns from any JSON object
LoadModelLenient(m, file, order) ==
    IF ~file.exists THEN [model |-> m, raised |-> "FileNotFoundError"]
    ELSE IF ~IsJson(file) THEN [model |-> m, raised |-> "JSONDecodeError"]
    ELSE [model |-> AssignedBefore(m, file, order, FirstMissing(file)), raised |-> "none"]

\* load_model(filepath) on the instance m: the instance it leaves and the exception it
\* raises, "none" when it returns
LoadModelOp(m, file, order) ==
    IF ~file.exists THEN [model |-> m, raised |-> "FileNotFoundError"]
    ELSE IF ~IsJson(file) THEN [model |-> m, raised |-> "JSONDecodeError"]
    ELSE LET k == FirstMissing(file)
         IN  [model |-> AssignedBefore(m, file, order, k),
              raised |-> IF k <= Len(RequiredFields) THEN "KeyError" ELSE "none"]

\* the orders in which the vocabulary set of an instance loaded from file may iterate
FileOrderings(file) ==
    IF file.exists /\ IsJson(file) /\ "vocabulary" \in DOMAIN file
    THEN Orderings(Range(file.vocabulary))
    ELSE {<<>>}

\* the model files of the checks of load_model: whole ones, ones without a field, one
\* that is no JSON, and none
DamagedFiles ==
    { WithoutField(file, RequiredFields[i]) : file \in ModelFiles, i \in DOMAIN RequiredFields }
       \cup {GarbledFile, NoFile}

IsDamaged(file) == ~file.exists \/ ~IsJson(file) \/ FirstMissing(file) <= Len(RequiredFields)

InitLoad ==
    /\ model = NewModel(DefaultNGramSize, DefaultMinCount)
    /\ loaded = NewModel(DefaultNGramSize, DefaultMinCount)
    /\ result = NoResult
    /\ trains = 0
    /\ disk \in ModelFiles \cup DamagedFiles
    /\ ServiceAtRest

\* SimpleLanguageModelBuiltin().load_model(filepath) on whatever the file is
LoadAnyFile ==
    /\ \E order \in FileOrderings(disk) :
          LET r == LoadModelOp(NewModel(DefaultNGramSize, DefaultMinCount), disk, order)
          IN  /\ loaded' = r.model
              /\ result' = Outcome("load", <<>>, r.raised, <<>>, {}, 0, <<>>)
    /\ UNCHANGED <<model, trains, disk, serviceVars>>

\* BookWritingChatbot(model_path): a fresh model, then load_model when a path is given
\* and the file exists, an exception of load_model caught and logged
NewChatbot ==
    /\ \E path_given \in BOOLEAN, order \in FileOrderings(disk) :
          LET fresh == NewModel(DefaultNGramSize, DefaultMinCount)
              calls == path_given /\ disk.exists
              r == IF calls THEN LoadModelOp(fresh, disk, order)
                   ELSE [model |-> fresh, raised |-> "none"]
          IN  /\ model' = r.model
              /\ result' = Outcome("construct", [path_given |-> path_given], "none", <<>>,
                                   {}, 0, [load_called |-> calls, load_raised |-> r.raised])
    /\ UNCHANGED <<trains, disk, loaded, serviceVars>>

NextLoad == LoadAnyFile \/ NewChatbot

SpecLoad == InitLoad /\ [][NextLoad]_vars

\* C11: load_model raises whenever the file is missing, is not parseable or lacks a
\* field, and never returns from such a file; the chatbot constructor that calls it on
\* such a file catches the exception, returns, and goes on with its model, untrained.
C11_LoadRaisesOnDamagedFile ==
    /\ (result.op = "load" /\ IsDamaged(disk)) => result.raised # "none"
    /\ result.op = "construct" =>
          /\ result.raised = "none"
          /\ (result.trace.load_called /\ IsDamaged(disk)) =>
                (result.trace.load_raised # "none" /\ ~model.is_trained)

\* the constructor called load_model on a JSON file that lacks its last field, after
\* load_model had assigned the fields before it
C11_Witness ==
    /\ result.op = "construct"
    /\ result.trace.load_called
    /\ result.trace.load_raised = "KeyError"
    /\ model.n_grams # NoWords

-----------------------------------------------------------------------------
(* Text.  The text processor works on the characters of a text: a text is  *)
(* the sequence of its characters, each a string of length one.            *)

UpperLetters ==
    <<"A", "B", "C", "D", "E", "F", "G", "H", "I", "J", "K", "L", "M",
      "N", "O", "P", "Q", "R", "S", "T", "U", "V", "W", "X", "Y", "Z">>

LowerLetters ==
    <<"a", "b", "c", "d", "e", "f", "g", "h", "i", "j", "k", "l", "m",
      "n", "o", "p", "q", "r", "s", "t", "u", "v", "w", "x", "y", "z">>

IsUpper(c) == c \in Range(UpperLetters)
IsLower(c) == c \in Range(LowerLetters)
IsDigit(c) == c \in Range(Digits)

\* \s
IsSpace(c) == c \in {" ", "\n", "\t"}

\* \w
IsWordChar(c) == IsUpper(c) \/ IsLower(c) \/ IsDigit(c) \/ c = "_"

\* [.!?]
IsTerminal(c) == c \in {".", "!", "?"}

\* str.lower() of one character
LowerChar(c) ==
    IF IsUpper(c) THEN LowerLetters[CHOOSE i \in DOMAIN UpperLetters : UpperLetters[i] = c]
    ELSE c

\* str.lower()
LowerText(text) == [i \in DOMAIN text |-> LowerChar(text[i])]

\* the first position from i on whose character does not satisfy the class, Len + 1
\* when the run reaches the end; i itself when text[i] is outside the class
RECURSIVE EndOfSpaces(_, _)
EndOfSpaces(text, i) ==
    IF i <= Len(text) /\ IsSpace(text[i]) THEN EndOfSpaces(text, i + 1) ELSE i

RECURSIVE EndOfTerminals(_, _)
EndOfTerminals(text, i) ==
    IF i <= Len(text) /\ IsTerminal(text[i]) THEN EndOfTerminals(text, i + 1) ELSE i

RECURSIVE EndOfDigits(_, _)
EndOfDigits(text, i) ==
    IF i <= Len(text) /\ IsDigit(text[i]) THEN EndOfDigits(text, i + 1) ELSE i

RECURSIVE StartOfSpaces(_, _)
\* the first position of the run of whitespace that holds position i
StartOfSpaces(text, i) ==
    IF i > 1 /\ IsSpace(text[i - 1]) THEN StartOfSpaces(text, i - 1) ELSE i

\* str.strip()
Strip(text) ==
    LET kept == { i \in DOMAIN text : ~IsSpace(text[i]) }
    IN  IF kept = {} THEN <<>>
        ELSE SubSeq(text, CHOOSE i \in kept : \A j \in kept : i <= j,
                          CHOOSE i \in kept : \A j \in kept : j <= i)

\* whether pattern stands in text at position i
StandsAt(text, pattern, i) ==
    /\ i + Len(pattern) - 1 <= Len(text)
    /\ SubSeq(text, i, i + Len(pattern) - 1) = pattern

\* the least element of a set of positions
MinOf(S) == CHOOSE x \in S : \A y \in S : x <= y

RECURSIVE ConcatRange(_, _, _)
ConcatRange(texts, lo, hi) ==
    IF lo > hi THEN <<>>
    ELSE IF lo = hi THEN texts[lo]
    ELSE ConcatRange(texts, lo, (lo + hi) \div 2)
            \o ConcatRange(texts, ((lo + hi) \div 2) + 1, hi)

\* the texts of a sequence, one after the other
Concat(texts) == ConcatRange(texts, 1, Len(texts))

RECURSIVE ReplaceFrom(_, _, _, _)
\* the text from position i on, each occurrence of pattern found from the left replaced
ReplaceFrom(text, pattern, by, i) ==
    LET found == { j \in i..Len(text) : StandsAt(text, pattern, j) }
    IN  IF found = {} THEN SubSeq(text, i, Len(text))
        ELSE SubSeq(text, i, MinOf(found) - 1) \o by
                \o ReplaceFrom(text, pattern, by, MinOf(found) + Len(pattern))

\* str.replace(pattern, by)
Replace(text, pattern, by) == ReplaceFrom(text, pattern, by, 1)

-----------------------------------------------------------------------------
(* _split_into_sentences_builtin.                                          *)

AbbrevMarker == <<"<", "A", "B", "B", "R", "E", "V", ">">>
DecimalMarker == <<"<", "D", "E", "C", "I", "M", "A", "L", ">">>

\* the length of the match of \b([A-Z][a-z]{1,3}\.) at position i, 0 when there is none
AbbrevAt(text, i) ==
    IF /\ IsUpper(text[i])
       /\ (i = 1 \/ ~IsWordChar(text[i - 1]))
       /\ \E k \in 1..3 :
             /\ i + k + 1 <= Len(text)
             /\ \A j \in (i + 1)..(i + k) : IsLower(text[j])
             /\ text[i + k + 1] = "."
    THEN 2 + CHOOSE k \in 1..3 :
                /\ i + k + 1 <= Len(text)
                /\ \A j \in (i + 1)..(i + k) : IsLower(text[j])
                /\ text[i + k + 1] = "."
    ELSE 0

\* re.sub(r'\b([A-Z][a-z]{1,3}\.)', r'\1<ABBREV>', text).  A match holds one uppercase
\* letter, its first character, so no match starts inside another: the text is the
\* matches, each with the marker after it, and the characters outside them.
ProtectAbbrevs(text) ==
    Concat([ i \in DOMAIN text |->
               IF AbbrevAt(text, i) > 0
               THEN SubSeq(text, i, i + AbbrevAt(text, i) - 1) \o AbbrevMarker
               ELSE IF \E s \in 1..(i - 1) : i - s <= 4 /\ AbbrevAt(text, s) > i - s
                    THEN <<>>
                    ELSE <<text[i]>> ])

\* the length of the match of (\d+\.\d+) at position i, 0 when there is none
DecimalAt(text, i) ==
    LET dot == EndOfDigits(text, i)
    IN  IF /\ IsDigit(text[i])
           /\ dot + 1 <= Len(text)
           /\ text[dot] = "."
           /\ IsDigit(text[dot + 1])
        THEN EndOfDigits(text, dot + 1) - i
        ELSE 0

RECURSIVE ProtectDecimalsFrom(_, _)
\* the text from position i on, the marker put after each match found from the left
ProtectDecimalsFrom(text, i) ==
    LET found == { j \in i..Len(text) : DecimalAt(text, j) > 0 }
    IN  IF found = {} THEN SubSeq(text, i, Len(text))
        ELSE SubSeq(text, i, MinOf(found) + DecimalAt(text, MinOf(found)) - 1)
                \o DecimalMarker
                \o ProtectDecimalsFrom(text, MinOf(found) + DecimalAt(text, MinOf(found)))

\* re.sub(r'(\d+\.\d+)', r'\1<DECIMAL>', text)
ProtectDecimals(text) == ProtectDecimalsFrom(text, 1)

\* $ at position i: the end of the text, or just before a newline that ends it
AtEnd(text, i) == i = Len(text) + 1 \/ (i = Len(text) /\ text[i] = "\n")

\* the position after the match of [.!?]+(?:\s+(?=[A-Z])|$) at position i, 0 when
\* there is none
BoundaryAt(text, i) ==
    LET after == EndOfTerminals(text, i)
        next == EndOfSpaces(text, after)
    IN  IF ~IsTerminal(text[i]) THEN 0
        ELSE IF next > after /\ next <= Len(text) /\ IsUpper(text[next]) THEN next
        ELSE IF AtEnd(text, after) THEN after
        ELSE 0

RECURSIVE SplitFrom(_, _)
\* re.split: the pieces of text between the matches, from the piece that starts at
\* position start
SplitFrom(text, start) ==
    LET found == { j \in start..Len(text) : BoundaryAt(text, j) > 0 }
    IN  IF found = {} THEN <<SubSeq(text, start, Len(text))>>
        ELSE <<SubSeq(text, start, MinOf(found) - 1)>>
                \o SplitFrom(text, BoundaryAt(text, MinOf(found)))

\* re.split(r'[.!?]+(?:\s+(?=[A-Z])|$)', text)
SplitOnBoundaries(text) == SplitFrom(text, 1)

\* sentence.replace('<ABBREV>', '.').replace('<DECIMAL>', '.').strip()
RestoreMarkers(piece) ==
    Strip(Replace(Replace(piece, AbbrevMarker, <<".">>), DecimalMarker, <<".">>))

\* if s
IsSentence(text) == text # <<>>

\* the pieces restored and stripped, the empty ones left out
RestoreAll(pieces) ==
    SelectSeq([i \in DOMAIN pieces |-> RestoreMarkers(pieces[i])], IsSentence)

\* _split_into_sentences_builtin(text)
SplitIntoSentences(text) ==
    RestoreAll(SplitOnBoundaries(ProtectDecimals(ProtectAbbrevs(text))))

-----------------------------------------------------------------------------
(* The segmenter on texts put together from up to MaxPieces pieces.        *)

TextPieces ==
    { <<"D", "r">>,
      <<".">>,
      <<" ">>,
      <<"S", "m", "i", "t", "h", " ", "w", "e", "n", "t", " ", "h", "o", "m", "e">>,
      <<"S", "h", "e", " ", "w", "a", "s", " ", "t", "i", "r", "e", "d">>,
      <<"3">>,
      <<"!">> }

DrSmithText ==
    <<"D", "r", ".", " ", "S", "m", "i", "t", "h", " ", "w", "e", "n", "t", " ", "h", "o", "m", "e", ".", " ", "S", "h", "e", " ", "w", "a", "s", " ", "t", "i", "r", "e", "d", ".">>

SegmentTexts ==
    { Concat(pieces) : pieces \in UNION { [1..k -> TextPieces] : k \in 0..MaxPieces } }
       \cup {DrSmithText}

\* processor._split_into_sentences_builtin(text); the call changes result alone, so one
\* call is taken at a time
SplitSentences ==
    /\ result.op # "split"
    /\ \E text \in SegmentTexts :
          result' = Outcome("split", text, "none", SplitIntoSentences(text), {}, 0, <<>>)
    /\ UNCHANGED <<model, trains, disk, loaded, serviceVars>>

NextSegment == SplitSentences

SpecSegment == Init /\ [][NextSegment]_vars

\* C15: the segmenter turns "Dr. Smith went home. She was tired." into exactly the two
\* sentences "Dr. Smith went home." and "She was tired.": no split after "Dr.", the
\* marker restored to a single period, the terminal punctuation kept.
C15_DrSmithTwoSentences ==
    (result.op = "split" /\ result.args = DrSmithText) =>
       result.value = << <<"D", "r", ".", " ", "S", "m", "i", "t", "h", " ", "w", "e", "n", "t", " ", "h", "o", "m", "e", ".">>,
                         <<"S", "h", "e", " ", "w", "a", "s", " ", "t", "i", "r", "e", "d", ".">> >>

-----------------------------------------------------------------------------
(* _clean_text.                                                            *)

\* re.sub(r'\s+', ' ', text): a run of whitespace leaves one space, where it starts
CollapseSpaces(text) ==
    Concat([ i \in DOMAIN text |->
               IF ~IsSpace(text[i]) THEN <<text[i]>>
               ELSE IF i > 1 /\ IsSpace(text[i - 1]) THEN <<>>
               ELSE <<" ">> ])

\* the characters that [^\w\s.!?;:,\'"()-] leaves alone
IsKept(c) ==
    IsWordChar(c) \/ IsSpace(c) \/ c \in {".", "!", "?", ";", ":", ",", "'", "\"", "(", ")", "-"}

\* re.sub(r'[^\w\s.!?;:,\'"()-]', ' ', text)
BlankSpecials(text) == [i \in DOMAIN text |-> IF IsKept(text[i]) THEN text[i] ELSE " "]

\* re.sub(r'\s+([.!?;:,])', r'\1', text): the whitespace of a run that one of these
\* characters follows is taken out
TightenPunctuation(text) ==
    Concat([ i \in DOMAIN text |->
               IF /\ IsSpace(text[i])
                  /\ EndOfSpaces(text, i) <= Len(text)
                  /\ text[EndOfSpaces(text, i)] \in {".", "!", "?", ";", ":", ","}
               THEN <<>>
               ELSE <<text[i]>> ])

\* whether ([.!?])\s*([A-Z]) matches at position i
TerminalBeforeUpper(text, i) ==
    /\ IsTerminal(text[i])
    /\ EndOfSpaces(text, i + 1) <= Len(text)
    /\ IsUpper(text[EndOfSpaces(text, i + 1)])

\* re.sub(r'([.!?])\s*([A-Z])', r'\1 \2', text): one space is put after the terminal
\* character of a match, and the whitespace the match holds is taken out
SpaceAfterTerminal(text) ==
    Concat([ i \in DOMAIN text |->
               IF TerminalBeforeUpper(text, i) THEN <<text[i], " ">>
               ELSE IF /\ IsSpace(text[i])
                       /\ StartOfSpaces(text, i) > 1
                       /\ TerminalBeforeUpper(text, StartOfSpaces(text, i) - 1)
                    THEN <<>>
                    ELSE <<text[i]>> ])

RECURSIVE EndOfRun(_, _, _)
\* the first position from i on that does not hold the character c
EndOfRun(text, c, i) ==
    IF i <= Len(text) /\ text[i] = c THEN EndOfRun(text, c, i + 1) ELSE i

RECURSIVE StartOfRun(_, _, _)
\* the first position of the run of characters c that holds position i
StartOfRun(text, c, i) ==
    IF i > 1 /\ text[i - 1] = c THEN StartOfRun(text, c, i - 1) ELSE i

\* re.sub of a run of at least `least` characters c: the run leaves `by`, where it starts
Squeeze(text, c, least, by) ==
    Concat([ i \in DOMAIN text |->
               IF text[i] # c THEN <<text[i]>>
               ELSE IF EndOfRun(text, c, i) - StartOfRun(text, c, i) < least THEN <<text[i]>>
               ELSE IF StartOfRun(text, c, i) = i THEN by
               ELSE <<>> ])

\* _clean_text(text)
CleanText(text) ==
    Strip(Squeeze(Squeeze(Squeeze(
        SpaceAfterTerminal(TightenPunctuation(BlankSpecials(CollapseSpaces(text)))),
        ".", 3, <<".", ".", ".">>), "!", 2, <<"!">>), "?", 2, <<"?">>))

-----------------------------------------------------------------------------
(* _filter_sentences and _update_vocabulary.                               *)

MinSentenceLength == 10
MaxSentenceLength == 500

RECURSIVE EndOfWord(_, _)
\* the first position from i on that holds whitespace, Len + 1 when there is none
EndOfWord(text, i) ==
    IF i <= Len(text) /\ ~IsSpace(text[i]) THEN EndOfWord(text, i + 1) ELSE i

\* str.split(): the runs of characters that are no whitespace, each taken where it starts
SplitWords(text) ==
    Concat([ i \in DOMAIN text |->
               IF ~IsSpace(text[i]) /\ (i = 1 \/ IsSpace(text[i - 1]))
               THEN <<SubSeq(text, i, EndOfWord(text, i) - 1)>>
               ELSE <<>> ])

\* len(re.sub(r'[a-zA-Z\s]', '', sentence))
OtherCount(sentence) ==
    Cardinality({ i \in DOMAIN sentence :
                     ~(IsUpper(sentence[i]) \/ IsLower(sentence[i]) \/ IsSpace(sentence[i])) })

\* str.isupper(): a cased character, and no lowercase one
IsUpperText(text) ==
    /\ \E i \in DOMAIN text : IsUpper(text[i])
    /\ \A i \in DOMAIN text : ~IsLower(text[i])

\* whether _filter_sentences keeps the sentence; n * 0.3 and n * 0.6 are compared in
\* tenths, which agrees with the float comparison for every n up to MaxSentenceLength
KeepsSentence(sentence) ==
    LET words == SplitWords(LowerText(sentence))
    IN  /\ Len(sentence) >= MinSentenceLength
        /\ Len(sentence) <= MaxSentenceLength
        /\ ~(10 * OtherCount(sentence) > 3 * Len(sentence))
        /\ ~(IsUpperText(sentence) /\ Len(sentence) > 20)
        /\ ~(10 * Cardinality(Range(words)) < 6 * Len(words) /\ Len(words) > 5)

\* _filter_sentences(sentences)
FilterSentences(sentences) == SelectSeq(sentences, KeepsSentence)

\* re.sub(r'[^\w]', '', word)
OnlyWordChars(word) == SelectSeq(word, IsWordChar)

\* len(clean_word) > 1
IsCounted(word) == Len(word) > 1

\* the cleaned words of a sentence that the vocabulary takes, in their order
CountedWords(sentence) ==
    LET words == SplitWords(LowerText(sentence))
    IN  SelectSeq([k \in DOMAIN words |-> OnlyWordChars(words[k])], IsCounted)

\* _update_vocabulary(sentences): vocabulary.add(word) and word_counts[word] += 1 for
\* every counted word of every sentence
UpdateVocabulary(proc, sentences) ==
    LET added == Concat([i \in DOMAIN sentences |-> CountedWords(sentences[i])])
        words == DOMAIN proc.word_counts \cup Range(added)
    IN  [proc EXCEPT
           !.vocabulary = @ \cup Range(added),
           !.word_counts =
               [w \in words |->
                  (IF w \in DOMAIN proc.word_counts THEN proc.word_counts[w] ELSE 0)
                     + Cardinality({ k \in DOMAIN added : added[k] = w })]]

-----------------------------------------------------------------------------
(* load_books_from_directory.  A file has a name, a content, and can be    *)
(* read or not (open() raises OSError on it); a directory is there or not, *)
(* and holds a set of files that os.listdir names in some order.  The      *)
(* title of a book is not modelled.                                        *)

MinContentLength == 100
MinBookSentences == 10

TxtSuffix == <<".", "t", "x", "t">>

\* filename.endswith('.txt')
EndsWithTxt(name) ==
    Len(name) >= Len(TxtSuffix) /\ StandsAt(name, TxtSuffix, Len(name) - Len(TxtSuffix) + 1)

-----------------------------------------------------------------------------
(* Files.                                                                  *)

RECURSIVE Repeat(_, _)
Repeat(text, k) == IF k = 0 THEN <<>> ELSE text \o Repeat(text, k - 1)

LineA == <<"A", "a", " ", "b", "b", " ", "a", "a", " ", "b", "b", ".", " ">>
LineB == <<"B", "b", " ", "a", "a", " ", "z", "z", " ", "b", "b", ".", " ">>
LineDigits == <<"A", "a", " ", "b", "b", " ", "7", "7", "7", "7", ".", " ">>

\* ten sentences that pass the filter
FileA == [name |-> <<"a", ".", "t", "x", "t">>, readable |-> TRUE, content |-> Repeat(LineA, MinBookSentences)]
FileB == [name |-> <<"b", ".", "t", "x", "t">>, readable |-> TRUE, content |-> Repeat(LineB, MinBookSentences)]
\* long enough, one sentence short of the gate
FileFew == [name |-> <<"c", ".", "t", "x", "t">>, readable |-> TRUE, content |-> Repeat(LineA, MinBookSentences - 1)]
\* under MinContentLength characters
FileShort == [name |-> <<"d", ".", "t", "x", "t">>, readable |-> TRUE, content |-> LineA]
\* ten sentences, one of which the filter rejects
FileMixed ==
    [name |-> <<"e", ".", "t", "x", "t">>, readable |-> TRUE,
     content |-> Repeat(LineA, MinBookSentences - 1) \o LineDigits]
\* open() raises on it
FileLocked == [name |-> <<"f", ".", "t", "x", "t">>, readable |-> FALSE, content |-> <<>>]
\* not a .txt file
FileNotes == [name |-> <<"n", ".", "m", "d">>, readable |-> TRUE, content |-> Repeat(LineA, MinBookSentences)]

\* The files that create_sample_books writes, each stood for by a text over the tokens
\* of the model that takes the path of the file through _load_single_book: the first
\* has ten accepted sentences, the other two have eight and more than MinContentLength
\* characters.
SampleAdventure ==
    [name |-> <<"a", "d", "v", "e", "n", "t", "u", "r", "e", "_", "t", "a", "l", "e", ".", "t", "x", "t">>, readable |-> TRUE, content |-> Repeat(LineA, 10)]
SampleFantasy ==
    [name |-> <<"f", "a", "n", "t", "a", "s", "y", "_", "r", "e", "a", "l", "m", ".", "t", "x", "t">>, readable |-> TRUE, content |-> Repeat(LineA, 8)]
SampleMystery ==
    [name |-> <<"m", "y", "s", "t", "e", "r", "y", "_", "n", "o", "v", "e", "l", ".", "t", "x", "t">>, readable |-> TRUE, content |-> Repeat(LineA, 8)]

Files ==
    {FileA, FileB, FileFew, FileShort, FileMixed, FileLocked, FileNotes,
     SampleAdventure, SampleFantasy, SampleMystery}

\* self._clean_text(content) of each file, worked out once
Cleaned == [file \in Files |-> CleanText(file.content)]

\* self._filter_sentences(self._split_into_sentences_builtin(cleaned_content)) of each file
Filtered == [file \in Files |-> FilterSentences(SplitIntoSentences(Cleaned[file]))]

-----------------------------------------------------------------------------
(* Loading.                                                                *)

\* _load_single_book with the vocabulary updated before the sentence-count gate
LoadSingleBookEager(proc, file) ==
    IF ~file.readable THEN [raised |-> TRUE, book |-> <<>>, proc |-> proc]
    ELSE IF Len(Strip(file.content)) < MinContentLength
         THEN [raised |-> FALSE, book |-> <<>>, proc |-> proc]
    ELSE LET cleaned == Cleaned[file]
             filtered == Filtered[file]
         IN  IF Len(filtered) < MinBookSentences
             THEN [raised |-> FALSE, book |-> <<>>, proc |-> UpdateVocabulary(proc, filtered)]
             ELSE [raised |-> FALSE,
                   book |-> <<[filename |-> file.name,
                               content |-> cleaned,
                               sentences |-> filtered,
                               word_count |-> Len(SplitWords(cleaned)),
                               sentence_count |-> Len(filtered)]>>,
                   proc |-> UpdateVocabulary(proc, filtered)]

\* _load_single_book(filepath, filename): whether it raises, the Book it returns (none
\* when it returns None), and the processor it leaves
LoadSingleBook(proc, file) ==
    IF ~file.readable THEN [raised |-> TRUE, book |-> <<>>, proc |-> proc]
    ELSE IF Len(Strip(file.content)) < MinContentLength
         THEN [raised |-> FALSE, book |-> <<>>, proc |-> proc]
    ELSE LET cleaned == Cleaned[file]
             filtered == Filtered[file]
         IN  IF Len(filtered) < MinBookSentences
             THEN [raised |-> FALSE, book |-> <<>>, proc |-> proc]
             ELSE [raised |-> FALSE,
                   book |-> <<[filename |-> file.name,
                               content |-> cleaned,
                               sentences |-> filtered,
                               word_count |-> Len(SplitWords(cleaned)),
                               sentence_count |-> Len(filtered)]>>,
                   proc |-> UpdateVocabulary(proc, filtered)]

RECURSIVE LoadBooksLoopAbort(_, _)
\* the loop without its try: the first file that raises ends it
LoadBooksLoopAbort(proc, files) ==
    IF Done(proc) /\ files = <<>> THEN proc
    ELSE LET r == LoadSingleBook(proc, Head(files))
         IN  IF r.raised THEN proc
             ELSE LoadBooksLoopAbort([r.proc EXCEPT !.book_data = @ \o r.book], Tail(files))

RECURSIVE LoadBooksLoop(_, _)
\* for filename in book_files: the Book appended when there is one, an exception logged
LoadBooksLoop(proc, files) ==
    IF Done(proc) /\ files = <<>> THEN proc
    ELSE LET r == LoadSingleBook(proc, Head(files))
         IN  LoadBooksLoop([r.proc EXCEPT !.book_data = @ \o r.book], Tail(files))

RECURSIVE TxtFiles(_)
\* [f for f in os.listdir(directory_path) if f.endswith('.txt')]
TxtFiles(listing) ==
    IF listing = <<>> THEN <<>>
    ELSE IF EndsWithTxt(Head(listing).name) THEN <<Head(listing)>> \o TxtFiles(Tail(listing))
    ELSE TxtFiles(Tail(listing))

\* a load_books_from_directory that returns self.book_data on every path
LoadBooksStale(proc, dir, listing) ==
    IF ~dir.exists THEN [processor |-> proc, value |-> proc.book_data, raised |-> "none"]
    ELSE IF TxtFiles(listing) = <<>>
         THEN [processor |-> proc, value |-> proc.book_data, raised |-> "none"]
    ELSE LET after == LoadBooksLoop(proc, TxtFiles(listing))
         IN  [processor |-> after, value |-> after.book_data, raised |-> "none"]

\* load_books_from_directory(directory_path), os.listdir naming the files as listing
LoadBooksOp(proc, dir, listing) ==
    IF ~dir.exists THEN [processor |-> proc, value |-> <<>>, raised |-> "none"]
    ELSE IF TxtFiles(listing) = <<>>
         THEN [processor |-> proc, value |-> <<>>, raised |-> "none"]
    ELSE LET after == LoadBooksLoop(proc, TxtFiles(listing))
         IN  [processor |-> after, value |-> after.book_data, raised |-> "none"]

\* get_training_data(): the sentences of all books
GetTrainingData(proc) == Concat([i \in DOMAIN proc.book_data |-> proc.book_data[i].sentences])

-----------------------------------------------------------------------------
(* Directories.                                                            *)

NoDirectory == [exists |-> FALSE, files |-> {}]

Directories ==
    { NoDirectory,
      [exists |-> TRUE, files |-> {}],
      [exists |-> TRUE, files |-> {FileNotes}],
      [exists |-> TRUE, files |-> {FileA, FileLocked, FileB}],
      [exists |-> TRUE, files |-> {FileShort, FileMixed, FileFew}],
      [exists |-> TRUE, files |-> {FileB}] }

InitBooks ==
    /\ model = NewModel(DefaultNGramSize, DefaultMinCount)
    /\ loaded = NewModel(DefaultNGramSize, DefaultMinCount)
    /\ result = NoResult
    /\ trains = 0
    /\ disk = NoFile
    /\ ServiceAtRest

\* processor.load_books_from_directory(directory_path)
LoadBooks ==
    /\ loads < MaxLoads
    /\ \E dir \in Directories :
       \E listing \in Orderings(dir.files) :
          LET r == LoadBooksOp(processor, dir, listing)
          IN  /\ processor' = r.processor
              /\ result' = Outcome("load_books", [dir |-> dir, listing |-> listing],
                                   r.raised, r.value, {}, 0, [before |-> processor])
    /\ loads' = loads + 1
    /\ UNCHANGED <<model, trains, disk, loaded, training_status, requests, conversation_history>>

NextBooks == LoadBooks

SpecBooks == InitBooks /\ [][NextBooks]_vars

-----------------------------------------------------------------------------
(* Claims about load_books_from_directory.                                 *)

\* whether the directory of the last call offers nothing to load
NothingToLoad(dir) == ~dir.exists \/ \A file \in dir.files : ~EndsWithTxt(file.name)

\* C12: load_books_from_directory returns an empty list and raises nothing when the
\* directory does not exist or holds no file whose name ends in .txt, whatever the
\* processor held before the call.
C12_NothingToLoadGivesEmptyList ==
    (result.op = "load_books" /\ NothingToLoad(result.args.dir))
        => (result.raised = "none" /\ result.value = <<>>)

\* such a call, made on a processor that holds books from an earlier call
C12_Witness ==
    /\ result.op = "load_books"
    /\ NothingToLoad(result.args.dir)
    /\ result.trace.before.book_data # <<>>
    /\ result.value = <<>>

\* whether the file passes the gates of _load_single_book: it can be read, its stripped
\* content has MinContentLength characters, and MinBookSentences sentences are accepted
PassesGates(file) ==
    /\ file.readable
    /\ Len(Strip(file.content)) >= MinContentLength
    /\ Len(Filtered[file]) >= MinBookSentences

\* the Books that the last call appended
NewBooks ==
    SubSeq(result.value, Len(result.trace.before.book_data) + 1, Len(result.value))

\* C13: a call on a directory with .txt files raises nothing whatever the files and
\* their order; each .txt file that passes the gates has a Book among those the call
\* appended, and the files that cannot be read or are too short have none.
C13_FailuresAreIsolated ==
    (result.op = "load_books" /\ ~NothingToLoad(result.args.dir))
        => /\ result.raised = "none"
           /\ \A file \in result.args.dir.files :
                 (EndsWithTxt(file.name) /\ PassesGates(file))
                    <=> \E i \in DOMAIN NewBooks : NewBooks[i].filename = file.name

\* a call whose listing names a file that cannot be read before a file that passes the
\* gates, and that returned the Book of the latter
C13_Witness ==
    /\ result.op = "load_books"
    /\ \E i, j \in DOMAIN result.args.listing :
          /\ i < j
          /\ ~result.args.listing[i].readable
          /\ PassesGates(result.args.listing[j])
          /\ \E k \in DOMAIN NewBooks : NewBooks[k].filename = result.args.listing[j].name

\* whether the file gets as far as the sentence-count gate and is rejected there
TooFewSentences(file) ==
    /\ EndsWithTxt(file.name)
    /\ file.readable
    /\ Len(Strip(file.content)) >= MinContentLength
    /\ Len(Filtered[file]) < MinBookSentences

\* C14: after any sequence of load calls every Book the processor holds has at least
\* ten accepted sentences and a sentence_count equal to the length of its sentence
\* list; a file with fewer than ten accepted sentences has no Book among those a call
\* appended, and the vocabulary and the word counts of the processor are those of the
\* sentences of the Books it holds, so that such a file added nothing to them.
C14_RejectedBookLeavesNothing ==
    /\ \A i \in DOMAIN processor.book_data :
          /\ Len(processor.book_data[i].sentences) >= 10
          /\ processor.book_data[i].sentence_count = Len(processor.book_data[i].sentences)
    /\ result.op = "load_books"
          => \A file \in result.args.dir.files :
                TooFewSentences(file)
                   => \A i \in DOMAIN NewBooks : NewBooks[i].filename # file.name
    /\ LET held == UpdateVocabulary(NewProcessor, GetTrainingData(processor))
       IN  /\ processor.vocabulary = held.vocabulary
           /\ processor.word_counts = held.word_counts

\* a call on a directory with a file that has accepted sentences, but fewer than ten,
\* made on a processor that holds Books
C14_Witness ==
    /\ result.op = "load_books"
    /\ processor.book_data # <<>>
    /\ \E file \in result.args.dir.files :
          /\ TooFewSentences(file)
          /\ Filtered[file] # <<>>
          /\ file \in Range(result.args.listing)

-----------------------------------------------------------------------------
(* train_from_books.                                                       *)

MaxSessions == 2

RECURSIVE TokenOf(_)
\* the string of a sequence of characters
TokenOf(chars) == IF chars = <<>> THEN "" ELSE Head(chars) \o TokenOf(Tail(chars))

RECURSIVE EndOfWordChars(_, _)
EndOfWordChars(text, i) ==
    IF i <= Len(text) /\ IsWordChar(text[i]) THEN EndOfWordChars(text, i + 1) ELSE i

\* re.findall(r'\b\w+\b|[.!?;,]', sentence.strip()): the runs of word characters and
\* the punctuation characters, in their order
FindTokens(sentence) ==
    LET text == Strip(sentence)
    IN  Concat([ i \in DOMAIN text |->
                   IF IsWordChar(text[i])
                   THEN IF i = 1 \/ ~IsWordChar(text[i - 1])
                        THEN <<TokenOf(SubSeq(text, i, EndOfWordChars(text, i) - 1))>>
                        ELSE <<>>
                   ELSE IF text[i] \in {".", "!", "?", ";", ","} THEN <<text[i]>>
                   ELSE <<>> ])

\* the sentences as model.train takes them up: the tokens re.findall finds in each
TokenLists(sentences) == [i \in DOMAIN sentences |-> FindTokens(sentences[i])]

\* the directory after create_sample_books(output_dir)
SampleDirectory ==
    [exists |-> TRUE, files |-> {SampleAdventure, SampleFantasy, SampleMystery}]

\* the directory that train_from_books loads from: the sample books are written when
\* the directory is missing or os.listdir finds nothing in it
BooksDirectory(dir) == IF ~dir.exists \/ dir.files = {} THEN SampleDirectory ELSE dir

NoValidBooks == "ValueError: No valid books found"
NoTrainingSentences == "ValueError: No training sentences extracted from books"

\* train_from_books(books_directory, save_model_path) on the chatbot with processor
\* proc and model m, the file at save_model_path being file: the processor, the model
\* and the file it leaves, the exception it raises, and whether it called model.train
TrainFromBooksOp(proc, m, file, dir, listing, order, save) ==
    LET books == LoadBooksOp(proc, BooksDirectory(dir), listing)
        sentences == GetTrainingData(books.processor)
    IN  IF books.value = <<>>
        THEN [processor |-> books.processor, model |-> m, disk |-> file,
              raised |-> NoValidBooks, trained |-> FALSE]
        ELSE IF sentences = <<>>
        THEN [processor |-> books.processor, model |-> m, disk |-> file,
              raised |-> NoTrainingSentences, trained |-> FALSE]
        ELSE LET after == TrainOp(m, TokenLists(sentences), order)
             IN  [processor |-> books.processor, model |-> after,
                  disk |-> IF save THEN SaveOp(after) ELSE file,
                  raised |-> "none", trained |-> TRUE]

\* the directories that train_from_books is called on
Shelves ==
    { NoDirectory,
      [exists |-> TRUE, files |-> {}],
      [exists |-> TRUE, files |-> {FileNotes}],
      [exists |-> TRUE, files |-> {FileFew, FileMixed}],
      [exists |-> TRUE, files |-> {FileA, FileLocked}] }

\* BookWritingChatbot(): a new processor and a new model
InitChatbot ==
    /\ model = NewModel(DefaultNGramSize, DefaultMinCount)
    /\ loaded = NewModel(DefaultNGramSize, DefaultMinCount)
    /\ result = NoResult
    /\ trains = 0
    /\ disk = NoFile
    /\ ServiceAtRest

\* chatbot.train_from_books(books_directory, save_model_path)
TrainFromBooks ==
    /\ loads < MaxSessions
    /\ \E dir \in Shelves, save \in BOOLEAN :
       \E listing \in Orderings(BooksDirectory(dir).files) :
          \E held \in {LoadBooksOp(processor, BooksDirectory(dir), listing).processor} :
             \E order \in Orderings(TrainedVocabulary(model,
                                       TokenLists(GetTrainingData(held)))) :
               \E r \in {TrainFromBooksOp(processor, model, disk, dir, listing, order, save)} :
                     /\ processor' = r.processor
                     /\ model' = r.model
                     /\ disk' = r.disk
                     /\ result' = Outcome("train_from_books",
                                          [dir |-> dir, save |-> save],
                                          r.raised, <<>>, {}, 0,
                                          [before |-> processor, model |-> model,
                                           trained |-> r.trained])
    /\ loads' = loads + 1
    /\ UNCHANGED <<trains, loaded, training_status, requests, conversation_history>>

NextChatbot == TrainFromBooks

SpecChatbot == InitChatbot /\ [][NextChatbot]_vars

\* the number of Books that the last call appended to those of the processor
BooksLoaded == Len(processor.book_data) - Len(result.trace.before.book_data)

\* C16: train_from_books raises the 'no valid books found' error when the call loads no
\* valid book, and the 'no training sentences' error when books are loaded and their
\* sentences together are none; in both cases model.train is not called and the model
\* is as it was.
C16_ErrorsWithoutTraining ==
    result.op = "train_from_books"
        => /\ BooksLoaded = 0
                 => /\ result.raised = NoValidBooks
                    /\ ~result.trace.trained
                    /\ model = result.trace.model
           /\ (BooksLoaded > 0 /\ GetTrainingData(processor) = <<>>)
                 => /\ result.raised = NoTrainingSentences
                    /\ ~result.trace.trained
                    /\ model = result.trace.model

-----------------------------------------------------------------------------
(* BookWritingChatbot.chat and clear_conversation_history.  A message is   *)
(* the sequence of its characters, a response a string.  An entry of       *)
(* conversation_history holds the message and the response, <<>> standing  *)
(* for None and <<response>> for a response; its timestamp is not kept.    *)

MaxHistory == 2      \* chat calls between two clear_conversation_history

\* the default temperature of generate_text, 0.8
DefaultTemperature == <<4, 5>>

\* num_suggestions of the suggestions _handle_suggestions asks for
PlotSuggestions == 3

\* `phrase in text`
Contains(text, phrase) == \E i \in 1..Len(text) : StandsAt(text, phrase, i)

\* the phrase lists of _parse_user_intent
WritingPhrases ==
    { <<"w", "r", "i", "t", "e">>,
      <<"c", "o", "n", "t", "i", "n", "u", "e">>,
      <<"h", "e", "l", "p", " ", "m", "e", " ", "w", "r", "i", "t", "e">>,
      <<"c", "o", "m", "p", "l", "e", "t", "e">> }
ContinuePhrases ==
    { <<"c", "o", "n", "t", "i", "n", "u", "e">>,
      <<"c", "o", "m", "p", "l", "e", "t", "e">> }
GenerationPhrases ==
    { <<"g", "e", "n", "e", "r", "a", "t", "e">>,
      <<"c", "r", "e", "a", "t", "e">>,
      <<"s", "t", "a", "r", "t">> }
StylePhrases ==
    { <<"s", "t", "y", "l", "e">>,
      <<"g", "e", "n", "r", "e">>,
      <<"l", "i", "k", "e">>,
      <<"s", "i", "m", "i", "l", "a", "r", " ", "t", "o">> }
SuggestionPhrases ==
    { <<"s", "u", "g", "g", "e", "s", "t">>,
      <<"i", "d", "e", "a">>,
      <<"w", "h", "a", "t", " ", "s", "h", "o", "u", "l", "d">>,
      <<"h", "e", "l", "p", " ", "w", "i", "t", "h">> }
InfoPhrases ==
    { <<"s", "t", "a", "t", "u", "s">>,
      <<"t", "r", "a", "i", "n", "e", "d">>,
      <<"m", "o", "d", "e", "l">>,
      <<"i", "n", "f", "o">> }

WordCharacter == <<"c", "h", "a", "r", "a", "c", "t", "e", "r">>
WordPlot == <<"p", "l", "o", "t">>
WordDialogue == <<"d", "i", "a", "l", "o", "g", "u", "e">>
WordStory == <<"s", "t", "o", "r", "y">>
WordTale == <<"t", "a", "l", "e">>
WordChapter == <<"c", "h", "a", "p", "t", "e", "r">>
WordParagraph == <<"p", "a", "r", "a", "g", "r", "a", "p", "h">>
WordTitle == <<"t", "i", "t", "l", "e">>
WordSaid == <<"s", "a", "i", "d">>
WordThe == <<"t", "h", "e">>

\* _parse_user_intent(user_input): the type and the action of the intent
ParseUserIntent(user_input) ==
    LET user_lower == LowerText(user_input)
        Has(phrase) == Contains(user_lower, phrase)
        HasAny(phrases) == \E phrase \in phrases : Has(phrase)
    IN  IF HasAny(WritingPhrases)
        THEN [type |-> "writing_assistance",
              action |-> IF HasAny(ContinuePhrases) THEN "continue_text"
                         ELSE IF Has(WordCharacter) THEN "character_development"
                         ELSE IF Has(WordPlot) THEN "plot_development"
                         ELSE IF Has(WordDialogue) THEN "dialogue_writing"
                         ELSE "general_writing"]
        ELSE IF HasAny(GenerationPhrases)
        THEN [type |-> "generation",
              action |-> IF Has(WordStory) \/ Has(WordTale) THEN "story_generation"
                         ELSE IF Has(WordChapter) THEN "chapter_generation"
                         ELSE IF Has(WordParagraph) THEN "paragraph_generation"
                         ELSE "text_generation"]
        ELSE IF HasAny(StylePhrases)
        THEN [type |-> "style_analysis", action |-> "analyze_style"]
        ELSE IF HasAny(SuggestionPhrases)
        THEN [type |-> "suggestions",
              action |-> IF Has(WordCharacter) THEN "character_suggestions"
                         ELSE IF Has(WordPlot) THEN "plot_suggestions"
                         ELSE IF Has(WordTitle) THEN "title_suggestions"
                         ELSE "general_suggestions"]
        ELSE IF HasAny(InfoPhrases)
        THEN [type |-> "info", action |-> "model_status"]
        ELSE [type |-> "general", action |-> "None"]

\* group 1 of the first match of quote([^quote]+)quote, <<>> when there is no match:
\* what stands between the first quote that a character other than a quote follows
\* and the next quote
QuotedMatch(text, quote) ==
    LET opens == { i \in 1..Len(text) :
                     /\ text[i] = quote
                     /\ \E j \in (i + 2)..Len(text) :
                           /\ text[j] = quote
                           /\ \A k \in (i + 1)..(j - 1) : text[k] # quote }
    IN  IF opens = {} THEN <<>>
        ELSE LET i == MinOf(opens)
             IN  SubSeq(text, i + 1, MinOf({ j \in (i + 1)..Len(text) : text[j] = quote }) - 1)

\* group 1 of the first match of keyword:?\s*(.+?)(?:\n|$) under IGNORECASE and DOTALL,
\* <<>> when there is no match.  The keyword matches where a character follows it; the
\* group starts after the colon and the whitespace, at the last character when nothing
\* else is left, and ends before the first newline after its first character
KeywordMatch(text, keyword) ==
    LET found == { i \in 1..Len(text) :
                     StandsAt(LowerText(text), keyword, i) /\ i + Len(keyword) <= Len(text) }
    IN  IF found = {} THEN <<>>
        ELSE LET after == MinOf(found) + Len(keyword)
                 colon == IF text[after] = ":" THEN after + 1 ELSE after
                 spaces == EndOfSpaces(text, colon)
                 start == IF spaces <= Len(text) THEN spaces ELSE Len(text)
                 ends == { e \in start..Len(text) : e = Len(text) \/ text[e + 1] = "\n" }
             IN  SubSeq(text, start, MinOf(ends))

\* match.group(1).strip() of the first pattern that matches, "" when none does
FirstMatch(matches) ==
    LET hits == { i \in DOMAIN matches : matches[i] # <<>> }
    IN  IF hits = {} THEN <<>> ELSE Strip(matches[MinOf(hits)])

\* _extract_text_to_continue(user_input)
ExtractTextToContinue(user_input) ==
    FirstMatch(<< QuotedMatch(user_input, "\""),
                  QuotedMatch(user_input, "'"),
                  KeywordMatch(user_input, <<"c", "o", "n", "t", "i", "n", "u", "e", " ", "t", "h", "i", "s">>),
                  KeywordMatch(user_input, <<"c", "o", "m", "p", "l", "e", "t", "e", " ", "t", "h", "i", "s">>),
                  KeywordMatch(user_input, <<"f", "i", "n", "i", "s", "h", " ", "t", "h", "i", "s">>) >>)

\* _extract_prompt(user_input)
ExtractPrompt(user_input) ==
    FirstMatch(<< QuotedMatch(user_input, "\""),
                  QuotedMatch(user_input, "'"),
                  KeywordMatch(user_input, <<"a", "b", "o", "u", "t">>),
                  KeywordMatch(user_input, <<"w", "r", "i", "t", "e", " ", "a", "b", "o", "u", "t">>),
                  KeywordMatch(user_input, <<"g", "e", "n", "e", "r", "a", "t", "e">>) >>)

\* a text as generate_text and suggest_next_words take it: the string, what str.split()
\* makes of it and the tokens the regular expression of _preprocess_sentence finds
PromptOf(text) ==
    [text |-> TokenOf(text),
     split |-> [ i \in DOMAIN SplitWords(text) |-> TokenOf(SplitWords(text)[i]) ],
     tokens |-> FindTokens(text)]

\* re.findall(r'\b\w+\b', text): the runs of word characters
FindWords(text) ==
    LET IsWord(token) == token \notin {".", "!", "?", ";", ","}
    IN  SelectSeq(FindTokens(text), IsWord)

RECURSIVE CommaJoin(_)
\* ', '.join(words)
CommaJoin(words) ==
    IF words = <<>> THEN ""
    ELSE IF Len(words) = 1 THEN words[1]
    ELSE words[1] \o ", " \o CommaJoin(Tail(words))

\* str.title() of the text _format_output makes of words: the words are lower-case
\* words of the vocabulary, so every word is capitalised
TitleOutput(words) ==
    IF words = <<>> THEN ""
    ELSE Join(AttachPunctuation(<<Capitalize(words[1])>>,
                                [ i \in 1..(Len(words) - 1) |-> Capitalize(words[i + 1]) ]))

\* the answer a handler makes of a generate_text call: the opening and the text, or
\* the exception of the call
Said(opening, r) ==
    [raised |-> r.raised, value |-> IF r.raised = "none" THEN opening \o r.value ELSE ""]

\* the answer of a handler that calls nothing that raises
Says(text) == [raised |-> "none", value |-> text]

NotTrainedResponse ==
    "I haven't been trained on any books yet. Please provide .txt book files for me to learn from before I can assist with writing!"

\* _handle_writing_assistance(user_input, intent)
HandleWritingAssistance(m, user_input, intent, draws, starters) ==
    LET Generate(prompt, max_length) ==
            GenerateTextOp(m, PromptOf(prompt), max_length, DefaultTemperature, draws, starters)
    IN  IF intent.action = "continue_text"
        THEN IF ExtractTextToContinue(user_input) # <<>>
             THEN Said("Here's a continuation:\n\n",
                       Generate(ExtractTextToContinue(user_input), 50))
             ELSE Said("I'll help you start writing:\n\n", Generate(<<>>, 30))
        ELSE IF intent.action = "character_development"
        THEN Said("Here's some character inspiration:\n\n", Generate(WordCharacter, 40))
        ELSE IF intent.action = "plot_development"
        THEN Said("Here's a plot idea:\n\n", Generate(WordStory, 50))
        ELSE IF intent.action = "dialogue_writing"
        THEN Said("Here's some dialogue inspiration:\n\n", Generate(WordSaid, 30))
        ELSE Said("Here's some writing to inspire you:\n\n", Generate(<<>>, 40))

\* _handle_text_generation(user_input, intent)
HandleTextGeneration(m, user_input, intent, draws, starters) ==
    LET Generate(max_length) ==
            GenerateTextOp(m, PromptOf(ExtractPrompt(user_input)), max_length,
                           DefaultTemperature, draws, starters)
    IN  IF intent.action = "story_generation"
        THEN Said("Here's a story beginning:\n\n", Generate(80))
        ELSE IF intent.action = "chapter_generation"
        THEN Said("Here's a chapter outline:\n\n", Generate(100))
        ELSE IF intent.action = "paragraph_generation"
        THEN Said("Here's a paragraph:\n\n", Generate(50))
        ELSE Said("Here's some generated text:\n\n", Generate(60))

\* word_counts.most_common(10) if word_counts else [], the words alone.  most_common
\* sorts by count and keeps words of one count in the order of their first counting,
\* which word_counts here does not hold: every order by falling count is taken
MostCommon(wc) ==
    { SubSeq(order, 1, Min(10, Len(order))) :
        order \in { o \in Orderings(DOMAIN wc) :
                      \A i, j \in DOMAIN o : i < j => wc[o[i]] >= wc[o[j]] } }

\* _handle_style_analysis(user_input), common the words of stats['most_common_words']
HandleStyleAnalysis(m, common) ==
    IF common # <<>>
    THEN Says("Based on my training, I've learned from "
              \o IntToStr(Cardinality(m.vocabulary)) \o " unique words. "
              \o "The most common words in my training data are: "
              \o CommaJoin(SubSeq(common, 1, Min(5, Len(common)))) \o ". "
              \o "This suggests the writing style tends to be descriptive and narrative.")
    ELSE Says("I can analyze writing style once I have more training data.")

\* the words of the suggestions suggest_next_words gives
SuggestedWords(suggestions) == [ i \in DOMAIN suggestions |-> suggestions[i][1] ]

\* the answer _handle_suggestions makes of the suggestions for a plot
PlotIdeas(suggestions) ==
    IF suggestions # <<>>
    THEN Says("Plot ideas based on my training: " \o CommaJoin(SuggestedWords(suggestions)))
    ELSE Says("Consider conflicts, character growth, and unexpected twists in your plot.")

\* _handle_suggestions(user_input, intent)
HandleSuggestions(m, intent, draws, starters) ==
    LET Suggest(context) == SuggestOp(m, PromptOf(context), PlotSuggestions).value
        Generate(prompt, max_length) ==
            GenerateTextOp(m, PromptOf(prompt), max_length, DefaultTemperature, draws, starters)
    IN  IF intent.action = "character_suggestions"
        THEN IF Suggest(WordCharacter) # <<>>
             THEN Says("Character ideas based on my training: "
                       \o CommaJoin(SuggestedWords(Suggest(WordCharacter))))
             ELSE Says("Create unique characters with distinct personalities, backgrounds, and motivations.")
        ELSE IF intent.action = "plot_suggestions"
        THEN PlotIdeas(Suggest(WordStory))
        ELSE IF intent.action = "title_suggestions"
        THEN LET r == Generate(WordThe, 5)
             IN  [raised |-> r.raised,
                  value |-> IF r.raised = "none"
                            THEN "Title suggestion: " \o TitleOutput(r.words) ELSE ""]
        ELSE Said("Writing suggestion based on my training:\n\n", Generate(<<>>, 20))

\* _handle_info_request(), common the words of stats['most_common_words']
HandleInfoRequest(m, common) ==
    Says("Model Status:\n"
         \o "- Trained: " \o (IF m.is_trained THEN "Yes" ELSE "No") \o "\n"
         \o "- Vocabulary size: " \o IntToStr(Cardinality(m.vocabulary)) \o " words\n"
         \o "- N-gram size: " \o IntToStr(m.n_gram_size) \o "\n"
         \o "- Total patterns learned: " \o IntToStr(Cardinality(DOMAIN m.n_grams)) \o "\n"
         \o (IF common # <<>>
             THEN "- Top words: " \o CommaJoin(SubSeq(common, 1, Min(5, Len(common))))
             ELSE ""))

\* _handle_general_chat(user_input)
HandleGeneralChat(m, user_input, draws, starters) ==
    LET relevant_keywords == FilterSeq(FindWords(LowerText(user_input)), m.vocabulary)
        Generate(prompt) ==
            GenerateTextOp(m, prompt, 30, DefaultTemperature, draws, starters)
    IN  IF relevant_keywords # <<>>
        THEN Said("Based on your message, here's something from my training:\n\n",
                  Generate([text |-> relevant_keywords[1],
                            split |-> <<relevant_keywords[1]>>,
                            tokens |-> <<relevant_keywords[1]>>]))
        ELSE Said("Here's something I learned from the books:\n\n", Generate(PromptOf(<<>>)))

\* _generate_response(user_input, intent): the answers it can give, one unless the
\* answer lists the most common words
GenerateResponse(m, user_input, intent, draws, starters) ==
    IF ~m.is_trained THEN { Says(NotTrainedResponse) }
    ELSE IF intent.type = "writing_assistance"
    THEN { HandleWritingAssistance(m, user_input, intent, draws, starters) }
    ELSE IF intent.type = "generation"
    THEN { HandleTextGeneration(m, user_input, intent, draws, starters) }
    ELSE IF intent.type = "style_analysis"
    THEN { HandleStyleAnalysis(m, common) : common \in MostCommon(m.word_counts) }
    ELSE IF intent.type = "suggestions"
    THEN { HandleSuggestions(m, intent, draws, starters) }
    ELSE IF intent.type = "info"
    THEN { HandleInfoRequest(m, common) : common \in MostCommon(m.word_counts) }
    ELSE { HandleGeneralChat(m, user_input, draws, starters) }

\* None, and a response, as the 'bot' of an entry
None == <<>>
Some(response) == <<response>>

\* conversation_history.append({..., 'user': user_input, 'bot': None})
WithEntry(history, user_input) == Append(history, [user |-> user_input, bot |-> None])

\* conversation_history[-1]['bot'] = response
WithResponse(history, response) == [history EXCEPT ![Len(history)].bot = Some(response)]

\* conversation_history when chat(user_input) ends, r what _generate_response did: an
\* exception leaves the function before the entry is given its response
ChatOp(history, user_input, r) ==
    IF r.raised = "none" THEN WithResponse(WithEntry(history, user_input), r.value)
    ELSE WithEntry(history, user_input)

\* a message that asks for a plot suggestion
PlotMessage == <<"p", "l", "o", "t", " ", "i", "d", "e", "a">>

\* the messages passed to chat
Messages ==
    { <<"h", "e", "l", "l", "o">>,
      PlotMessage,
      <<"T", "i", "t", "l", "e", " ", "i", "d", "e", "a">>,
      <<"c", "o", "n", "t", "i", "n", "u", "e", " ", "'", "a", "a", " ", "b", "b", "'">>,
      <<"c", "r", "e", "a", "t", "e", " ", "p", "a", "r", "a", "g", "r", "a", "p", "h">>,
      <<"s", "t", "a", "t", "u", "s">>,
      <<"w", "h", "a", "t", " ", "s", "t", "y", "l", "e">> }

\* the streams of draws a chat call is given
ChatDraws == { draws \in DrawStreams : draws[2] = Zero }

\* BookWritingChatbot(): the model of the chatbot with the defaults of its constructor
InitChat ==
    /\ model = NewModel(DefaultNGramSize, DefaultMinCount)
    /\ loaded = NewModel(DefaultNGramSize, DefaultMinCount)
    /\ result = NoResult
    /\ trains = 0
    /\ disk = NoFile
    /\ ServiceAtRest

\* chatbot.chat(user_input)
Chat ==
    /\ Len(conversation_history) < MaxHistory
    /\ \E user_input \in Messages, draws \in ChatDraws :
       \E starters \in Orderings({ model.sentence_starters[i] :
                                      i \in DOMAIN model.sentence_starters }) :
       \E r \in GenerateResponse(model, user_input, ParseUserIntent(user_input), draws,
                                 starters) :
          /\ conversation_history' = ChatOp(conversation_history, user_input, r)
          /\ result' = Outcome("chat", [user_input |-> user_input], r.raised, r.value, {}, 0,
                               ParseUserIntent(user_input))
    /\ UNCHANGED <<model, trains, disk, loaded, processor, training_status, requests, loads>>

\* chatbot.clear_conversation_history()
ClearConversationHistory ==
    /\ conversation_history' = <<>>
    /\ result' = Outcome("clear_conversation_history", <<>>, "none", <<>>, {}, 0, <<>>)
    /\ UNCHANGED <<model, trains, disk, loaded, processor, training_status, requests, loads>>

MaxChatTrains == 1   \* trainings of the chatbot per behaviour

\* the sentences the chatbot is trained on: one that leaves the vocabulary empty, every
\* word being counted once, and three that leave words and a sentence ending in it
ChatCorpora == { <<SentenceAB>>, <<SentenceAB, SentenceShort, SentenceBAA>> }

\* self.model.train(sentences), as train_from_books calls it
TrainChatbot ==
    /\ trains < MaxChatTrains
    /\ \E sentences \in ChatCorpora :
       \E order \in Orderings(TrainedVocabulary(model, sentences)) :
          /\ model' = TrainOp(model, sentences, order)
          /\ result' = Outcome("train", sentences, "none", <<>>, {}, 0, <<>>)
    /\ trains' = trains + 1
    /\ UNCHANGED <<disk, loaded, serviceVars>>

\* the chatbot: its training, chat and clear_conversation_history
NextChat == TrainChatbot \/ Chat \/ ClearConversationHistory

SpecChat == InitChat /\ [][NextChat]_vars

-----------------------------------------------------------------------------
(* The web service of app.py.  One chatbot and one training_status are     *)
(* shared by the requests, which the server handles side by side.  A       *)
(* request is at one place of its handler at a time; a step of the model   *)
(* takes it from one place to the next, and the steps of different         *)
(* requests interleave.  Within model.train the loops that count and that  *)
(* fill the table are one step, the loop that normalises is another: the   *)
(* interleavings of the model are among those of the code.  The answer of  *)
(* a /chat request is kept in result; the answers of the other routes are  *)
(* not kept.                                                               *)

MaxRequests == 3      \* requests per behaviour
MaxInFlight == 2      \* requests handled side by side

\* the files a /train request uploads
Uploads == { {FileA}, {FileFew}, {FileNotes} }

\* temp_books after the .txt files of the upload were saved into it
TempBooks(upload) == [exists |-> TRUE, files |-> { file \in upload : EndsWithTxt(file.name) }]

\* the context _handle_suggestions passes for a plot suggestion; story is no word of the
\* books, so the vocabulary filter drops it
StoryContext == [text |-> "story", split |-> <<"story">>, tokens |-> <<"story">>]

\* train, from the loop over the sentences to the word mappings
TrainCountOp(m, sentences, order) ==
    LET processed == ProcessedSentences(m.n_gram_size, sentences)
        wc == UpdateWordCounts(m.word_counts, processed)
        V == FilterVocabulary(wc, m.min_word_count)
        w2i == WordToId(V)
    IN  [m EXCEPT !.word_to_id = w2i,
                  !.id_to_word = IdToWord(w2i),
                  !.vocabulary = V,
                  !.vocab_iter = order,
                  !.word_counts = wc,
                  !.sentence_starters = TrackStarters(@, processed)]

\* train, "Build n-grams": the counts are added to the table
TrainBuildOp(m, sentences) ==
    [m EXCEPT !.n_grams = BuildNGrams(@, ProcessedSentences(m.n_gram_size, sentences),
                                      m.vocabulary, m.n_gram_size)]

\* train, "Convert counts to probabilities", and is_trained = True
TrainNormaliseOp(m) == [m EXCEPT !.n_grams = ToProbabilities(@), !.is_trained = TRUE]

\* a request: its route, the place its handler is at, the directory it trains from and
\* the sentences it passed to model.train
Request(route, pc, dir, sentences) ==
    [route |-> route, pc |-> pc, dir |-> dir, sentences |-> sentences]

\* the request as its handler goes on to pc
At(request, pc) == [request EXCEPT !.pc = pc]

\* the request once it has answered
Answered(request) == Request(request.route, "done", NoDirectory, <<>>)

\* the requests that are inside chatbot.train_from_books
InTrainFromBooks == { i \in DOMAIN requests : requests[i].pc \in {"build", "normalise"} }

\* the requests that are inside model.train
InModelTrain == { i \in DOMAIN requests : requests[i].pc = "normalise" }

\* the requests that have not answered yet
InFlight == { i \in DOMAIN requests : requests[i].pc # "done" }

\* whether the server takes up one more request
Accepts == Len(requests) < MaxRequests /\ Cardinality(InFlight) < MaxInFlight

\* init_chatbot() and the module's globals
InitService ==
    /\ model = NewModel(DefaultNGramSize, DefaultMinCount)
    /\ loaded = NewModel(DefaultNGramSize, DefaultMinCount)
    /\ result = NoResult
    /\ trains = 0
    /\ disk = NoFile
    /\ ServiceAtRest

\* a POST /train with an upload arrives; trains counts the requests that ask for a
\* training
PostTrain ==
    /\ Accepts
    /\ trains < MaxTrains
    /\ \E upload \in Uploads :
          requests' = Append(requests, Request("train", "check", TempBooks(upload), <<>>))
    /\ trains' = trains + 1
    /\ UNCHANGED <<model, result, disk, loaded, processor, training_status, loads,
                 conversation_history>>

\* a POST /create_sample_books arrives; train_from_books writes the sample books when
\* sample_books is not there, and finds them there afterwards
PostCreateSampleBooks ==
    /\ Accepts
    /\ trains < MaxTrains
    /\ requests' = Append(requests, Request("create_sample_books", "mark", NoDirectory, <<>>))
    /\ trains' = trains + 1
    /\ UNCHANGED <<model, result, disk, loaded, processor, training_status, loads,
                 conversation_history>>

\* a POST /chat with a message that asks for a plot suggestion arrives
PostChat ==
    /\ Accepts
    /\ requests' = Append(requests, Request("chat", "check", NoDirectory, <<>>))
    /\ UNCHANGED <<model, result, trains, disk, loaded, processor, training_status, loads,
                 conversation_history>>

\* /train up to "Start training": the request is refused when training_status says a
\* training is under way, and when the upload has no .txt file
TrainCheck(i) ==
    /\ i \in DOMAIN requests
    /\ requests[i].route = "train" /\ requests[i].pc = "check"
    /\ requests' =
          [requests EXCEPT ![i] =
              IF training_status.is_training \/ requests[i].dir.files = {}
              THEN Answered(@)
              ELSE At(@, "mark")]
    /\ UNCHANGED <<model, result, trains, disk, loaded, processor, training_status, loads,
                 conversation_history>>

\* training_status['is_training'] = True, in /train and in /create_sample_books
MarkTraining(i) ==
    /\ i \in DOMAIN requests
    /\ requests[i].pc = "mark"
    /\ training_status' =
          [is_training |-> TRUE,
           status |-> IF requests[i].route = "train" THEN "training" ELSE "creating"]
    /\ requests' = [requests EXCEPT ![i] = At(@, "load")]
    /\ UNCHANGED <<model, result, trains, disk, loaded, processor, loads,
                 conversation_history>>

\* train_from_books up to model.train: the books are loaded, and the call raises when
\* there is none or when they have no sentence
LoadForTraining(i) ==
    /\ i \in DOMAIN requests
    /\ requests[i].pc = "load"
    /\ \E listing \in Orderings(BooksDirectory(requests[i].dir).files) :
          LET books == LoadBooksOp(processor, BooksDirectory(requests[i].dir), listing)
              sentences == GetTrainingData(books.processor)
          IN  /\ processor' = books.processor
              /\ requests' =
                    [requests EXCEPT ![i] =
                        IF books.value = <<>> \/ sentences = <<>>
                        THEN At(@, "failed")
                        ELSE Request(@.route, "build", @.dir, TokenLists(sentences))]
    /\ UNCHANGED <<model, result, trains, disk, loaded, training_status, loads,
                 conversation_history>>

\* model.train up to the table of counts
BuildTable(i) ==
    /\ i \in DOMAIN requests
    /\ requests[i].pc = "build"
    /\ \E order \in Orderings(TrainedVocabulary(model, requests[i].sentences)) :
          model' = TrainBuildOp(TrainCountOp(model, requests[i].sentences, order),
                                requests[i].sentences)
    /\ requests' = [requests EXCEPT ![i] = At(@, "normalise")]
    /\ UNCHANGED <<result, trains, disk, loaded, processor, training_status, loads,
                 conversation_history>>

\* the rest of model.train, and model.save_model('trained_model.json')
NormaliseTable(i) ==
    /\ i \in DOMAIN requests
    /\ requests[i].pc = "normalise"
    /\ model' = TrainNormaliseOp(model)
    /\ disk' = SaveOp(TrainNormaliseOp(model))
    /\ requests' = [requests EXCEPT ![i] = At(@, "finish")]
    /\ UNCHANGED <<result, trains, loaded, processor, training_status, loads,
                 conversation_history>>

\* training_status['is_training'] = False after train_from_books returned
FinishTraining(i) ==
    /\ i \in DOMAIN requests
    /\ requests[i].pc = "finish"
    /\ training_status' = [is_training |-> FALSE, status |-> "completed"]
    /\ requests' = [requests EXCEPT ![i] = Answered(@)]
    /\ UNCHANGED <<model, result, trains, disk, loaded, processor, loads,
                 conversation_history>>

\* an except clause that reports the error and leaves is_training as it is
FailTrainingKeepsFlag(i) ==
    /\ i \in DOMAIN requests
    /\ requests[i].pc = "failed"
    /\ training_status' = [training_status EXCEPT !.status = "error"]
    /\ requests' = [requests EXCEPT ![i] = Answered(@)]
    /\ UNCHANGED <<model, result, trains, disk, loaded, processor, loads,
                 conversation_history>>

\* except Exception: training_status['is_training'] = False, status 'error'
FailTraining(i) ==
    /\ i \in DOMAIN requests
    /\ requests[i].pc = "failed"
    /\ training_status' = [is_training |-> FALSE, status |-> "error"]
    /\ requests' = [requests EXCEPT ![i] = Answered(@)]
    /\ UNCHANGED <<model, result, trains, disk, loaded, processor, loads,
                 conversation_history>>

\* /chat up to the check of _generate_response: chat appends its entry, and an untrained
\* model is answered for
ChatCheck(i) ==
    /\ i \in DOMAIN requests
    /\ requests[i].route = "chat" /\ requests[i].pc = "check"
    /\ IF ~model.is_trained
       THEN /\ requests' = [requests EXCEPT ![i] = Answered(@)]
            /\ result' = Outcome("chat", <<>>, "none", "I haven't been trained", {"is_trained"},
                                 0, [training |-> InModelTrain, table |-> <<>>])
            /\ conversation_history' =
                  WithResponse(WithEntry(conversation_history, PlotMessage), NotTrainedResponse)
       ELSE /\ requests' = [requests EXCEPT ![i] = At(@, "query")]
            /\ conversation_history' = WithEntry(conversation_history, PlotMessage)
            /\ UNCHANGED result
    /\ UNCHANGED <<model, trains, disk, loaded, processor, training_status, loads>>

\* _handle_suggestions: model.suggest_next_words("story", num_suggestions=3), and the
\* response goes into the last entry of the history; the course of the call holds the
\* requests inside model.train and the table it looked into
ChatQuery(i) ==
    /\ i \in DOMAIN requests
    /\ requests[i].pc = "query"
    /\ LET r == SuggestOp(model, StoryContext, PlotSuggestions)
       IN  /\ result' = Outcome("chat", [context |-> StoryContext], r.raised, r.value, r.reads,
                                0, [training |-> InModelTrain, table |-> model.n_grams])
           /\ conversation_history' =
                 WithResponse(conversation_history, PlotIdeas(r.value).value)
    /\ requests' = [requests EXCEPT ![i] = Answered(@)]
    /\ UNCHANGED <<model, trains, disk, loaded, processor, training_status, loads>>

\* the next step of the handler of request i
Handle(i) ==
    \/ TrainCheck(i)
    \/ MarkTraining(i)
    \/ LoadForTraining(i)
    \/ BuildTable(i)
    \/ NormaliseTable(i)
    \/ FinishTraining(i)
    \/ FailTraining(i)
    \/ ChatCheck(i)
    \/ ChatQuery(i)

NextService ==
    \/ PostTrain
    \/ PostCreateSampleBooks
    \/ PostChat
    \/ \E i \in 1..MaxRequests : Handle(i)

SpecService == InitService /\ [][NextService]_vars

\* the next step of the handler of a training request
HandleTraining(i) ==
    \/ TrainCheck(i)
    \/ MarkTraining(i)
    \/ LoadForTraining(i)
    \/ BuildTable(i)
    \/ NormaliseTable(i)
    \/ FinishTraining(i)
    \/ FailTraining(i)

NextTraining ==
    \/ PostTrain
    \/ PostCreateSampleBooks
    \/ \E i \in 1..MaxRequests : HandleTraining(i)

\* The handler of request i moves on: its place changes.  Inside NextTraining these
\* are exactly the steps of HandleTraining(i), and one is possible as long as the
\* request has not been answered (every place before "done" has a step whose guard
\* is the place alone).  The first disjunct is one such change, written as an
\* assignment so that ENABLED is decided without building a table.
Advances(i) ==
    /\ i \in DOMAIN requests
    /\ requests[i].pc # "done"
    /\ \/ requests' = [requests EXCEPT ![i] = Answered(@)]
       \/ requests'[i].pc # requests[i].pc

\* The training requests by themselves: /chat neither reads nor writes
\* training_status.  The server gives every request a thread of its own and the
\* handlers have no loop that waits on another request: a handler that can take its
\* next step takes it.
SpecTraining ==
    /\ InitService
    /\ [][NextTraining]_vars
    /\ \A i \in 1..MaxRequests : WF_requests(Advances(i))

\* C17: over all interleavings of /train and /create_sample_books requests, at most one
\* train_from_books call is in flight at any time, and training_status['is_training']
\* is true whenever one is in flight.
C17_TrainingIsSerialized ==
    /\ Cardinality(InTrainFromBooks) <= 1
    /\ InTrainFromBooks # {} => training_status.is_training

\* whether the probabilities of every context of the table add up to one
IsNormalised(table) == \A c \in DOMAIN table : SumProbs(table[c]) = One

\* C18: no suggest_next_words call of a /chat request runs on the shared model while a
\* train call on it is in flight, and none looks into a table that holds counts not yet
\* normalised into probabilities.
C18_NoQueryDuringTraining ==
    (result.op = "chat" /\ "n_grams" \in result.reads)
        => /\ result.trace.training = {}
           /\ IsNormalised(result.trace.table)

-----------------------------------------------------------------------------
(* Sentence starters and the seed of generation: the claims.               *)

\* the sentences of a train call that are taken up (at least n_gram_size tokens kept)
\* and whose first token, as the text has it, is title-cased
TitledSentences(n, sentences) ==
    { i \in DOMAIN sentences :
        /\ sentences[i] # <<>>
        /\ IsTitle(sentences[i][1])
        /\ Len(PreprocessSentence(sentences[i])) >= n }

\* C21: after train, the sentence-starter list holds the first token of every training
\* sentence that begins with a title-cased token, and it is empty only when no
\* training sentence begins with one
C21_StartersAreRecorded ==
    (result.op = "train" /\ result.args # <<>>)
        => LET titled == TitledSentences(model.n_gram_size, result.args)
           IN  /\ \A i \in titled :
                     \E j \in DOMAIN model.sentence_starters :
                        Lower(model.sentence_starters[j]) = Lower(result.args[i][1])
               /\ model.sentence_starters = <<>> => titled = {}


\* the tokens generate_text had before its loop began: those of the last generate call
SeedOfRun ==
    SubSeq(result.trace.words, 1,
           IF result.trace.steps = <<>> THEN Len(result.trace.words)
           ELSE result.trace.steps[1].at)

\* the prompt of the last generate call has no token left after tokenizing and
\* dropping what the vocabulary does not hold
PromptLeavesNothing ==
    FilterSeq(PreprocessSentence(result.args.prompt.tokens), model.vocabulary) = <<>>

\* C22: on a trained model, when the prompt leaves no token (it is empty, or all its
\* tokens are out of vocabulary), generate_text seeds the sequence with exactly one
\* token, a lower-cased starter if one is recorded and a vocabulary token otherwise
C22_EmptyPromptIsSeeded ==
    (result.op = "generate" /\ model.is_trained /\ PromptLeavesNothing)
        => /\ Len(SeedOfRun) = 1
           /\ IF model.sentence_starters # <<>>
              THEN \E j \in DOMAIN model.sentence_starters :
                      SeedOfRun[1] = Lower(model.sentence_starters[j])
              ELSE SeedOfRun[1] \in model.vocabulary


\* the tokens the loop of the last generate call appended to its seed
AppendedOfRun ==
    SubSeq(result.trace.words, Len(SeedOfRun) + 1, Len(result.trace.words))

SentenceTerminals == {".", "!", "?"}

\* C23: the trained generation loop appends at most max_length tokens, and a sentence
\* terminal among the appended tokens is the last of them: the loop stops right after
\* the first one; with max_length = 0 nothing is appended
C23_LoopStopsAtTerminalOrBudget ==
    (result.op = "generate" /\ model.is_trained)
        => /\ Len(AppendedOfRun) <= result.args.max_length
           /\ \A i \in DOMAIN AppendedOfRun :
                 AppendedOfRun[i] \in SentenceTerminals => i = Len(AppendedOfRun)
           /\ (result.raised = "none" /\ Len(AppendedOfRun) < result.args.max_length)
                 => /\ AppendedOfRun # <<>>
                    /\ AppendedOfRun[Len(AppendedOfRun)] \in SentenceTerminals

\* a trained run that a sentence terminal ended with budget left, after a first token
C23_Witness ==
    /\ result.op = "generate"
    /\ model.is_trained
    /\ result.raised = "none"
    /\ Len(AppendedOfRun) >= 2
    /\ Len(AppendedOfRun) < result.args.max_length
    /\ AppendedOfRun[Len(AppendedOfRun)] \in SentenceTerminals

-----------------------------------------------------------------------------
(* Suggestions: the claims.                                                *)

\* the tokens of the pairs that the last suggest call returned
SuggestedTokens == { result.value[i][1] : i \in DOMAIN result.value }

\* C24: on a trained model suggest_next_words(context, k) returns at most k pairs,
\* each an entry of the one distribution resolved for the context, in the order of
\* non-increasing probability; no entry left out has a greater probability than one
\* returned, and the list is empty when no distribution is resolved
C24_SuggestionsAreTopK ==
    (result.op = "suggest" /\ model.is_trained)
        => LET value == result.value
               dist == result.trace.dist
           IN  /\ Len(value) <= result.args.k
               /\ dist = <<>> \/ \E ctx \in DOMAIN model.n_grams : model.n_grams[ctx] = dist
               /\ \A i \in DOMAIN value :
                     \E j \in DOMAIN dist : value[i] = <<dist[j].w, dist[j].p>>
               /\ \A i, j \in DOMAIN value : i # j => value[i][1] # value[j][1]
               /\ \A i, j \in DOMAIN value : i < j => FLeq(value[j][2], value[i][2])
               /\ \A j \in DOMAIN dist :
                     dist[j].w \notin SuggestedTokens
                        => \A i \in DOMAIN value : FLeq(dist[j].p, value[i][2])
               /\ dist = <<>> => value = <<>>

\* one suggestion asked of a distribution whose first entry is not its most probable
C24_Witness ==
    /\ result.op = "suggest"
    /\ model.is_trained
    /\ result.args.k = 1
    /\ Len(result.trace.dist) >= 2
    /\ FLess(result.trace.dist[1].p, result.trace.dist[2].p)
    /\ Len(result.value) = 1
    /\ result.value[1][1] = result.trace.dist[2].w

-----------------------------------------------------------------------------
(* The keys of the table: the claims.                                      *)

\* C25: after any sequence of train calls on a model of context size n, every key of
\* the n-gram table is a tuple of exactly n - 1 tokens
C25_KeysHaveContextLength ==
    \A ctx \in DOMAIN model.n_grams : Len(ctx) = model.n_gram_size - 1

\* two train calls have filled the table of a trigram model with several keys
C25_Witness ==
    /\ trains = MaxTrains
    /\ result.op = "train"
    /\ model.n_gram_size = DefaultNGramSize
    /\ Cardinality(DOMAIN model.n_grams) >= 2
    /\ \A ctx \in DOMAIN model.n_grams : Len(ctx) = 2

-----------------------------------------------------------------------------
(* Queries leave the instance alone: the claims.                           *)

\* C26: generate_text and suggest_next_words are read-only: after the call the n-gram
\* table with its set of keys, the vocabulary, the word counts, the id mappings, the
\* sentence starters and is_trained are what they were
C26_QueriesAreReadOnly ==
    [][result'.op \in QueryOps => model' = model]_vars

\* a query on a trained model that looked up a context the table has no entry for
C26_Witness ==
    /\ model.is_trained
    /\ DOMAIN model.n_grams # {}
    /\ \/ /\ result.op = "generate"
          /\ \E i \in DOMAIN result.trace.steps :
                /\ ~result.trace.steps[i].found
                /\ result.trace.steps[i].ctx \notin DOMAIN model.n_grams
       \/ /\ result.op = "suggest"
          /\ result.trace.dist = <<>>
          /\ result.trace.ctx \notin DOMAIN model.n_grams

-----------------------------------------------------------------------------
(* A load_model that fails: the claims.                                    *)

\* C27: when load_model raises (no file, a file that is no JSON, or a JSON object
\* without one of the fields), every field of the instance keeps the value it had
\* before the call, here those of the instance just constructed
C27_FailedLoadIsAtomic ==
    (result.op = "load" /\ result.raised # "none")
        => loaded = NewModel(DefaultNGramSize, DefaultMinCount)

-----------------------------------------------------------------------------
(* The Books of one call: the claims.                                      *)

\* C28: the list load_books_from_directory(d) returns, and the sentences
\* get_training_data returns after it, hold only Books built from files of d in that
\* call: none of an earlier call or of another directory, and none twice
C28_OnlyBooksOfThisCall ==
    result.op = "load_books"
        => /\ \A i \in DOMAIN result.value :
                 \E file \in result.args.dir.files : result.value[i].filename = file.name
           /\ \A i, j \in DOMAIN result.value :
                 i # j => result.value[i].filename # result.value[j].filename
           /\ result.value = NewBooks
           /\ GetTrainingData(processor)
                 = Concat([i \in DOMAIN NewBooks |-> NewBooks[i].sentences])

-----------------------------------------------------------------------------
(* The training flag is given back: the claims.                            *)

\* the requests that have set is_training and have not answered yet
Marked ==
    { i \in DOMAIN requests :
        requests[i].pc \in {"load", "build", "normalise", "finish", "failed"} }

\* a marked request answers by setting is_training to False, with the status
\* 'completed' or 'error'
AnswerGivesFlagBack ==
    \A i \in Marked :
        requests'[i].pc = "done"
            => /\ ~training_status'.is_training
               /\ training_status'.status \in {"completed", "error"}

\* a /train request taken up while no marked request is in flight is not refused for
\* a training in progress: if it is refused, its upload had no .txt file
NotRefusedAtRest ==
    \A i \in DOMAIN requests :
        (/\ requests[i].route = "train" /\ requests[i].pc = "check"
         /\ Marked = {}
         /\ requests'[i].pc = "done")
            => requests[i].dir.files = {}

\* C29: every /train or /create_sample_books request that sets is_training to true
\* eventually sets it back to false, whether training succeeds or raises; once no such
\* request is in flight is_training is false, and a later /train request is not
\* refused with 'Training already in progress'
C29_FlagIsGivenBack ==
    /\ [](Marked = {} => ~training_status.is_training)
    /\ [][AnswerGivesFlagBack /\ NotRefusedAtRest]_vars
    /\ \A i \in 1..MaxRequests : (i \in Marked) ~> (i \in DOMAIN requests /\ requests[i].pc = "done")

\* a training raised and gave the flag back, and a /train request that came to its
\* check with nothing in flight went on to train
C29_Witness ==
    /\ training_status.status = "error"
    /\ ~training_status.is_training
    /\ Marked = {}
    /\ \E i, j \in DOMAIN requests :
          /\ i < j
          /\ requests[i].pc = "done" /\ requests[i].route # "chat"
          /\ requests[j].route = "train" /\ requests[j].pc = "mark"

-----------------------------------------------------------------------------
(* The conversation history: the claim.                                    *)

\* a chat call appends one entry to the history and leaves the entries before it
ChatAppendsOne ==
    result'.op = "chat"
        => /\ Len(conversation_history') = Len(conversation_history) + 1
           /\ SubSeq(conversation_history', 1, Len(conversation_history))
                 = conversation_history

\* no entry of the history has None for its response
NoNullResponse ==
    \A i \in DOMAIN conversation_history : conversation_history[i].bot # None

\* clear_conversation_history empties the history and leaves the model and the
\* text processor as they were
ClearOnlyEmpties ==
    result'.op = "clear_conversation_history"
        => /\ conversation_history' = <<>>
           /\ model' = model
           /\ processor' = processor

\* C30: every call to chat appends exactly one entry to the conversation history, and
\* after the call has ended, by returning or by an exception from response generation,
\* no entry of the history has a null bot response; clear_conversation_history empties
\* the history and changes nothing else
C30_HistoryIsAnswered ==
    /\ []NoNullResponse
    /\ [][ChatAppendsOne /\ ClearOnlyEmpties]_vars

====
